---------------------------- MODULE Spec2Model ----------------------------
(***************************************************************************)
(* Gaze calibration controller, temporal smoother and gaze predictor of    *)
(* the React eye tracker (components/WebcamLandmarker.tsx,                 *)
(* utils/drawing.ts, CalibrationDisplay in unnamed/part_001, App.tsx).     *)
(*                                                                         *)
(* React state (useState) is held in the variables of the same name; the   *)
(* values captured by the closures of the last committed render are held   *)
(* in `rendered`.  A state update made outside a click handler (a frame    *)
(* callback, a timer callback, a passive effect) leaves a render pending   *)
(* until the Render action commits it; a click handler commits at once.    *)
(* Refs (useRef) and the module-level smoothing scalars change at once.    *)
(*                                                                         *)
(* Numbers: raw gaze vectors are integers; the smoothing scalars are held  *)
(* in units of 1/FP; averages and regression values are exact rationals    *)
(* <<numerator, denominator>>.                                             *)
(***************************************************************************)
EXTENDS Integers, Sequences, FiniteSets, Bags, TLC

(***************************************************************************)
(* Program constants                                                       *)
(***************************************************************************)
CALIBRATION_FRAMES == 90
Z_SCORE_THRESHOLD == 2
MIN_LANDMARKS == 473
FILTER_MIN_SAMPLES == 10
MIN_TRAINING_ROWS == 3
\* SMOOTHING_FACTOR = 0.2 = SMOOTHING_NUM / SMOOTHING_DEN
SMOOTHING_NUM == 1
SMOOTHING_DEN == 5
\* lambda = 0.01 = LAMBDA_NUM / LAMBDA_DEN
LAMBDA_NUM == 1
LAMBDA_DEN == 100
GAZE_PROJECTION_STRENGTH_HIGH == 60
GAZE_PROJECTION_STRENGTH_LOW == 30
REFERENCE_INTER_OCULAR_DISTANCE == 120
MIN_INTER_OCULAR_DISTANCE == 10

(***************************************************************************)
(* Bounds of the model                                                     *)
(***************************************************************************)
\* resolution of the smoothing scalars: one unit of a raw vector is FP units
FP == 20
\* frame identifiers above MaxFrameId are all represented by MaxFrameId + 1
MaxFrameId == 2
\* horizontal component of the raw gaze vectors of the frames with valid
\* geometry
MaxRaw == 1
\* the gaze vectors handed to the gaze predictor on its own have components
\* 0, 1, MaxVec, ExtremeVec and their negatives
MaxVec == 12
ExtremeVec == 1000000
\* the regression coefficients handed to it are -MaxCoeff, 0, 1/2, MaxCoeff
MaxCoeff == 1
\* the sample buffers handed to the outlier filter hold samples at 0 and
\* outliers at OutlierValue or -OutlierValue, up to MaxGroup of each kind
OutlierValue == 1000
MaxGroup == 11
\* the matrices handed to invert and to ridgeRegression have integer
\* entries of magnitude up to MaxEntry
MaxEntry == 2

(***************************************************************************)
(* CalibrationStep (types.ts)                                              *)
(***************************************************************************)
CollectingSteps ==
    { "collecting_center", "collecting_top_center", "collecting_top_right",
      "collecting_middle_right", "collecting_bottom_right",
      "collecting_bottom_center", "collecting_bottom_left",
      "collecting_middle_left", "collecting_top_left" }

AwaitingSteps ==
    { "awaiting_top_center", "awaiting_top_right", "awaiting_middle_right",
      "awaiting_bottom_right", "awaiting_bottom_center",
      "awaiting_bottom_left", "awaiting_middle_left", "awaiting_top_left" }

CalibrationStep == {"idle", "done"} \cup CollectingSteps \cup AwaitingSteps

\* the switch of the calibration effect: awaiting_X -> collecting_X
AwaitTarget(step) ==
    CASE step = "awaiting_top_center"    -> "collecting_top_center"
      [] step = "awaiting_top_right"     -> "collecting_top_right"
      [] step = "awaiting_middle_right"  -> "collecting_middle_right"
      [] step = "awaiting_bottom_right"  -> "collecting_bottom_right"
      [] step = "awaiting_bottom_center" -> "collecting_bottom_center"
      [] step = "awaiting_bottom_left"   -> "collecting_bottom_left"
      [] step = "awaiting_middle_left"   -> "collecting_middle_left"
      [] step = "awaiting_top_left"      -> "collecting_top_left"
      [] OTHER                           -> "none"

\* transitionMap of processCollectedSamples: collecting_X -> awaiting_Y
\* a transitionMap whose first entry skips a target point
transitionMapSkipping(step) ==
    CASE step = "collecting_center" -> "awaiting_top_right"
      [] step = "collecting_top_center" -> "awaiting_top_right"
      [] step = "collecting_top_right" -> "awaiting_middle_right"
      [] step = "collecting_middle_right" -> "awaiting_bottom_right"
      [] step = "collecting_bottom_right" -> "awaiting_bottom_center"
      [] step = "collecting_bottom_center" -> "awaiting_bottom_left"
      [] step = "collecting_bottom_left" -> "awaiting_middle_left"
      [] step = "collecting_middle_left" -> "awaiting_top_left"
      [] OTHER -> "none"

transitionMap(step) ==
    CASE step = "collecting_center"        -> "awaiting_top_center"
      [] step = "collecting_top_center"    -> "awaiting_top_right"
      [] step = "collecting_top_right"     -> "awaiting_middle_right"
      [] step = "collecting_middle_right"  -> "awaiting_bottom_right"
      [] step = "collecting_bottom_right"  -> "awaiting_bottom_center"
      [] step = "collecting_bottom_center" -> "awaiting_bottom_left"
      [] step = "collecting_bottom_left"   -> "awaiting_middle_left"
      [] step = "collecting_middle_left"   -> "awaiting_top_left"
      [] OTHER                             -> "none"

(***************************************************************************)
(* Exact rational arithmetic: a rational is <<n, d>> with d > 0, reduced.  *)
(***************************************************************************)
Abs(x) == IF x < 0 THEN -x ELSE x

RECURSIVE GCD(_, _)
GCD(a, b) == IF b = 0 THEN a ELSE GCD(b, a % b)

Rat(n, d) ==
    LET g == GCD(Abs(n), Abs(d))
        sgn == IF d < 0 THEN -1 ELSE 1
    IN  <<sgn * (n \div g), sgn * (d \div g)>>

RInt(n) == <<n, 1>>
\* sums and products cancel common factors before they multiply
RAdd(p, q) ==
    LET g == GCD(p[2], q[2])
    IN  Rat(p[1] * (q[2] \div g) + q[1] * (p[2] \div g), (p[2] \div g) * q[2])
RNeg(p) == <<-p[1], p[2]>>
RSub(p, q) == RAdd(p, RNeg(q))
RMul(p, q) ==
    LET g1 == GCD(Abs(p[1]), q[2])
        g2 == GCD(Abs(q[1]), p[2])
    IN  <<(p[1] \div g1) * (q[1] \div g2), (p[2] \div g2) * (q[2] \div g1)>>
RDiv(p, q) ==
    RMul(p, IF q[1] < 0 THEN <<-q[2], -q[1]>> ELSE <<q[2], q[1]>>)
RAbs(p) == <<Abs(p[1]), p[2]>>
RLess(p, q) == p[1] * q[2] < q[1] * p[2]
RLeq(p, q) == p[1] * q[2] <= q[1] * p[2]
RMax(p, q) == IF RLess(p, q) THEN q ELSE p
RMin(p, q) == IF RLess(q, p) THEN q ELSE p

RECURSIVE RSum(_)
RSum(s) == IF Len(s) = 0 THEN RInt(0) ELSE RAdd(Head(s), RSum(Tail(s)))

\* floor of the square root of a natural number
RECURSIVE ISqrtFrom(_, _)
ISqrtFrom(v, r) == IF (r + 1) * (r + 1) > v THEN r ELSE ISqrtFrom(v, r + 1)
RECURSIVE ISqrt(_)
ISqrt(v) ==
    IF v < 4 THEN ISqrtFrom(v, 0)
    ELSE LET h == 2 * ISqrt(v \div 4)
         IN  IF (h + 1) * (h + 1) > v THEN h ELSE h + 1

(***************************************************************************)
(* Matrix utilities (WebcamLandmarker.tsx 15-82).  A matrix is a sequence  *)
(* of rows, a row a sequence of rationals.  NULL stands for null; an       *)
(* operator named ...Throws tells when the function raises an error.       *)
(***************************************************************************)
NULL == <<>>

transposeThrows(matrix) == Len(matrix) = 0
transpose(matrix) ==
    [colIndex \in 1..Len(matrix[1]) |->
        [r \in 1..Len(matrix) |-> matrix[r][colIndex]]]

multiplyThrows(a, b) ==
    \/ Len(a) = 0
    \/ Len(b) = 0
    \/ Len(a[1]) # Len(b)
multiply(a, b) ==
    [r \in 1..Len(a) |->
        [c \in 1..Len(b[1]) |->
            RSum([i \in 1..Len(a[1]) |-> RMul(a[r][i], b[i][c])])]]

multiplyVectorThrows(matrix, vector) ==
    \/ Len(matrix) = 0
    \/ Len(matrix[1]) # Len(vector)
multiplyVector(matrix, vector) ==
    [r \in 1..Len(matrix) |->
        RSum([c \in 1..Len(matrix[1]) |-> RMul(matrix[r][c], vector[c])])]

addThrows(a, b) ==
    \/ Len(a) = 0
    \/ Len(b) = 0
    \/ Len(a) # Len(b)
    \/ Len(a[1]) # Len(b[1])
add(a, b) ==
    [r \in 1..Len(a) |-> [c \in 1..Len(a[1]) |-> RAdd(a[r][c], b[r][c])]]

identity(size) ==
    [i \in 1..size |-> [j \in 1..size |-> IF i = j THEN RInt(1) ELSE RInt(0)]]

scalarMultiply(matrix, scalar) ==
    [r \in 1..Len(matrix) |->
        [c \in 1..Len(matrix[r]) |-> RMul(matrix[r][c], scalar)]]

\* Math.abs(pivot) < 1e-10: every non-zero rational held here has a
\* denominator below 2^31, hence a magnitude above 1e-10
PivotIsSingular(pivot) == pivot[1] = 0

\* an invert without partial pivoting: the pivot row is row i
MaxRowFromNoPivoting(augmented, i, k, maxRow) == i

\* the row chosen by the partial pivoting loop: the first row k >= i whose
\* entry in column i has the greatest magnitude
RECURSIVE MaxRowFrom(_, _, _, _)
MaxRowFrom(augmented, i, k, maxRow) ==
    IF k > Len(augmented) THEN maxRow
    ELSE MaxRowFrom(augmented, i, k + 1,
            IF RLess(RAbs(augmented[maxRow][i]), RAbs(augmented[k][i]))
            THEN k ELSE maxRow)

SwapRows(augmented, i, maxRow) ==
    [r \in 1..Len(augmented) |->
        IF r = i THEN augmented[maxRow]
        ELSE IF r = maxRow THEN augmented[i]
        ELSE augmented[r]]

\* one pass of the outer loop of invert on column i, after the swap
EliminateColumn(swapped, i) ==
    LET n == Len(swapped)
        pivot == swapped[i][i]
        pivotRow == [j \in 1..(2 * n) |->
                        IF j >= i THEN RDiv(swapped[i][j], pivot)
                        ELSE swapped[i][j]]
    IN  [k \in 1..n |->
            IF k = i THEN pivotRow
            ELSE [j \in 1..(2 * n) |->
                    IF j >= i
                    THEN RSub(swapped[k][j], RMul(swapped[k][i], pivotRow[j]))
                    ELSE swapped[k][j]]]

RECURSIVE GaussJordan(_, _)
GaussJordan(augmented, i) ==
    IF i > Len(augmented) THEN augmented
    ELSE LET swapped == SwapRows(augmented, i, MaxRowFrom(augmented, i, i + 1, i))
         IN  IF PivotIsSingular(swapped[i][i]) THEN NULL
             ELSE GaussJordan(EliminateColumn(swapped, i), i + 1)

invert(matrix) ==
    LET n == Len(matrix)
    IN  IF n = 0 \/ n # Len(matrix[1]) THEN NULL
        ELSE LET augmented == [i \in 1..n |-> matrix[i] \o identity(n)[i]]
                 reduced == GaussJordan(augmented, 1)
             IN  IF reduced = NULL THEN NULL
                 ELSE [r \in 1..n |-> SubSeq(reduced[r], n + 1, 2 * n)]

\* what a call leaves in place of a result when it raises an error
Thrown == << "Error" >>

\* a ridgeRegression without its try/catch: an error raised by transpose,
\* multiply, add or multiplyVector leaves the call
ridgeRegressionUncaught(X, y, lambda) ==
    IF transposeThrows(X) THEN Thrown
    ELSE LET XT == transpose(X)
         IN  IF multiplyThrows(XT, X) THEN Thrown
             ELSE LET XTX == multiply(XT, X)
                      lambdaI == scalarMultiply(identity(Len(XTX)), lambda)
                  IN  IF addThrows(XTX, lambdaI) THEN Thrown
                      ELSE LET term1_inv == invert(add(XTX, lambdaI))
                           IN  IF term1_inv = NULL THEN NULL
                               ELSE IF multiplyThrows(term1_inv, XT) THEN Thrown
                               ELSE LET term2 == multiply(term1_inv, XT)
                                    IN  IF multiplyVectorThrows(term2, y) THEN Thrown
                                        ELSE multiplyVector(term2, y)

ridgeRegression(X, y, lambda) ==
    IF transposeThrows(X) THEN NULL
    ELSE LET XT == transpose(X)
         IN  IF multiplyThrows(XT, X) THEN NULL
             ELSE LET XTX == multiply(XT, X)
                      lambdaI == scalarMultiply(identity(Len(XTX)), lambda)
                  IN  IF addThrows(XTX, lambdaI) THEN NULL
                      ELSE LET term1_inv == invert(add(XTX, lambdaI))
                           IN  IF term1_inv = NULL THEN NULL
                               ELSE IF multiplyThrows(term1_inv, XT) THEN NULL
                               ELSE LET term2 == multiply(term1_inv, XT)
                                    IN  IF multiplyVectorThrows(term2, y) THEN NULL
                                        ELSE multiplyVector(term2, y)

(***************************************************************************)
(* Calibration samples and their statistics.  A CalibrationSample is       *)
(* [vec_R |-> [x, y], vec_L |-> [x, y]]; the sample buffer is a bag of     *)
(* samples (the code only counts, sums and filters the buffer).            *)
(***************************************************************************)
\* the 1e-6 added to the standard deviation, as 1 / EPSILON_DEN
EPSILON_DEN == 1000000

Components == {"vec_R_x", "vec_R_y", "vec_L_x", "vec_L_y"}

Component(s, c) ==
    CASE c = "vec_R_x" -> s.vec_R.x
      [] c = "vec_R_y" -> s.vec_R.y
      [] c = "vec_L_x" -> s.vec_L.x
      [] c = "vec_L_y" -> s.vec_L.y

RECURSIVE SumOver(_, _, _, _)
SumOver(S, bag, c, power) ==
    IF S = {} THEN 0
    ELSE LET s == CHOOSE e \in S : TRUE
             v == Component(s, c)
         IN  bag[s] * (IF power = 2 THEN v * v ELSE v)
                + SumOver(S \ {s}, bag, c, power)

\* getStats on one component of the buffer: mean = sum / n and
\* stdDev = sqrt(varNum) / n, with varNum = n * (sum of squares) - sum^2
getStats(bag, c) ==
    LET n == BagCardinality(bag)
        sum == SumOver(BagToSet(bag), bag, c, 1)
        sumSq == SumOver(BagToSet(bag), bag, c, 2)
    IN  [n |-> n, sum |-> sum, varNum |-> n * sumSq - sum * sum]

\* Math.abs((x - mean) / (stdDev + 1e-6)) < Z_SCORE_THRESHOLD, decided
\* exactly over the reals: with a = |n*x - sum|, Z = Z_SCORE_THRESHOLD it is
\* a < Z * sqrt(varNum) + Z * n / EPSILON_DEN
WithinZScore(x, stats) ==
    LET a == Abs(stats.n * x - stats.sum)
        Z == Z_SCORE_THRESHOLD
        root == ISqrt(stats.varNum)
        D == a * a - Z * Z * stats.varNum
    IN  IF a <= Z * root THEN TRUE
        ELSE IF a > Z * root + Z THEN FALSE
        ELSE IF D <= 0 THEN TRUE
        ELSE D <= (2 * a * Z * stats.n - 1) \div EPSILON_DEN

\* a filter that tests the two values of the right eye only
filteredSamplesRightEyeOnly(bag) ==
    LET keep == { s \in BagToSet(bag) :
                    \A c \in {"vec_R_x", "vec_R_y"} :
                        WithinZScore(Component(s, c), getStats(bag, c)) }
    IN  [s \in keep |-> bag[s]]

filteredSamples(bag) ==
    LET keep == { s \in BagToSet(bag) :
                    \A c \in Components : WithinZScore(Component(s, c), getStats(bag, c)) }
    IN  [s \in keep |-> bag[s]]

\* avgGaze with the fall-back test written `filteredSamples.length >= 10`
AverageGazeFromTen(bag) ==
    LET filtered == filteredSamples(bag)
        samplesToUse == IF BagCardinality(filtered) >= FILTER_MIN_SAMPLES
                        THEN filtered ELSE bag
        numSamples == BagCardinality(samplesToUse)
        sum(c) == SumOver(BagToSet(samplesToUse), samplesToUse, c, 1)
        avgVec_R == [x |-> Rat(sum("vec_R_x"), numSamples), y |-> Rat(sum("vec_R_y"), numSamples)]
        avgVec_L == [x |-> Rat(sum("vec_L_x"), numSamples), y |-> Rat(sum("vec_L_y"), numSamples)]
    IN  [x |-> RDiv(RAdd(avgVec_R.x, avgVec_L.x), RInt(2)),
         y |-> RDiv(RAdd(avgVec_R.y, avgVec_L.y), RInt(2))]

\* avgGaze of processCollectedSamples
AverageGaze(bag) ==
    LET filtered == filteredSamples(bag)
        samplesToUse == IF BagCardinality(filtered) > FILTER_MIN_SAMPLES
                        THEN filtered ELSE bag
        numSamples == BagCardinality(samplesToUse)
        sum(c) == SumOver(BagToSet(samplesToUse), samplesToUse, c, 1)
        avgVec_R == [x |-> Rat(sum("vec_R_x"), numSamples), y |-> Rat(sum("vec_R_y"), numSamples)]
        avgVec_L == [x |-> Rat(sum("vec_L_x"), numSamples), y |-> Rat(sum("vec_L_y"), numSamples)]
    IN  [x |-> RDiv(RAdd(avgVec_R.x, avgVec_L.x), RInt(2)),
         y |-> RDiv(RAdd(avgVec_R.y, avgVec_L.y), RInt(2))]

(***************************************************************************)
(* CalibrationData (types.ts): points maps a step name to its avgGaze;     *)
(* absent regression coefficients are NoCoeffs; the initial null state is  *)
(* NullData.                                                               *)
(***************************************************************************)
NoCoeffs == [u |-> <<>>, v |-> <<>>]
EmptyPoints == [k \in {} |-> [x |-> RInt(0), y |-> RInt(0)]]
NullData == [isNull |-> TRUE, points |-> EmptyPoints, regressionCoeffs |-> NoCoeffs]
EmptyData == [isNull |-> FALSE, points |-> EmptyPoints, regressionCoeffs |-> NoCoeffs]

\* SCREEN_POSITION_MAP (drawing.ts), in halves: u = u2 / 2, v = v2 / 2
SCREEN_POSITION_MAP(stepName) ==
    CASE stepName = "collecting_center"        -> [u2 |-> 1, v2 |-> 1]
      [] stepName = "collecting_top_center"    -> [u2 |-> 1, v2 |-> 0]
      [] stepName = "collecting_top_right"     -> [u2 |-> 2, v2 |-> 0]
      [] stepName = "collecting_middle_right"  -> [u2 |-> 2, v2 |-> 1]
      [] stepName = "collecting_bottom_right"  -> [u2 |-> 2, v2 |-> 2]
      [] stepName = "collecting_bottom_center" -> [u2 |-> 1, v2 |-> 2]
      [] stepName = "collecting_bottom_left"   -> [u2 |-> 0, v2 |-> 2]
      [] stepName = "collecting_middle_left"   -> [u2 |-> 0, v2 |-> 1]
      [] stepName = "collecting_top_left"      -> [u2 |-> 0, v2 |-> 0]

\* the keys of Object.entries(points) that have a screen position, listed
\* in the order of the calibration sequence (the fit does not depend on
\* the order of the rows)
StepOrder ==
    << "collecting_center", "collecting_top_center", "collecting_top_right",
       "collecting_middle_right", "collecting_bottom_right",
       "collecting_bottom_center", "collecting_bottom_left",
       "collecting_middle_left", "collecting_top_left" >>

trainingKeys(points) ==
    SelectSeq(StepOrder, LAMBDA k : k \in DOMAIN points)

\* trainingData: one row of features and its target per stored point that
\* has a screen position
trainingData(points) ==
    [i \in 1..Len(trainingKeys(points)) |->
        [features |-> << RInt(1), points[trainingKeys(points)[i]].x,
                         points[trainingKeys(points)[i]].y >>,
         target |-> SCREEN_POSITION_MAP(trainingKeys(points)[i])]]

\* the regression training with the row test written
\* `trainingData.length > 3`
TrainRegressionAboveThree(points, before) ==
    LET rows == trainingData(points)
        X == [i \in 1..Len(rows) |-> rows[i].features]
        y_u == [i \in 1..Len(rows) |-> Rat(rows[i].target.u2, 2)]
        y_v == [i \in 1..Len(rows) |-> Rat(rows[i].target.v2, 2)]
        lambda == Rat(LAMBDA_NUM, LAMBDA_DEN)
        fitted == [u |-> ridgeRegression(X, y_u, lambda),
                   v |-> ridgeRegression(X, y_v, lambda)]
    IN  IF Len(rows) > MIN_TRAINING_ROWS
        THEN (IF fitted.u # NULL /\ fitted.v # NULL THEN fitted ELSE before)
        ELSE before

\* the regression training of the final step: the regressionCoeffs the
\* calibration data holds afterwards, `before` when training is skipped or
\* a fit returns null
TrainRegression(points, before) ==
    LET rows == trainingData(points)
        X == [i \in 1..Len(rows) |-> rows[i].features]
        y_u == [i \in 1..Len(rows) |-> Rat(rows[i].target.u2, 2)]
        y_v == [i \in 1..Len(rows) |-> Rat(rows[i].target.v2, 2)]
        lambda == Rat(LAMBDA_NUM, LAMBDA_DEN)
        fitted == [u |-> ridgeRegression(X, y_u, lambda),
                   v |-> ridgeRegression(X, y_v, lambda)]
    IN  IF Len(rows) >= MIN_TRAINING_ROWS
        THEN (IF fitted.u # NULL /\ fitted.v # NULL THEN fitted ELSE before)
        ELSE before

\* the points of updatedCalibrationData
\* an update that stores the new point without spreading the earlier ones
UpdatedPointsDroppingEarlier(step, samples, closureData) ==
    [k \in {step} |-> AverageGaze(samples)]

UpdatedPoints(step, samples, closureData) ==
    [k \in (DOMAIN closureData.points) \cup {step} |->
        IF k = step THEN AverageGaze(samples) ELSE closureData.points[k]]

\* the body of processCollectedSamples(step) after its minimum-samples
\* guard: `closureData` is the calibrationData its closure captured, `cur`
\* the current [isProcessingSamples, calibrationData, calibrationStep]; the
\* result is these three afterwards
ProcessBuffer(step, samples, closureData, cur) ==
    IF step = "collecting_top_left"
    THEN [isProcessingSamples |-> TRUE,
          calibrationData |->
              [isNull |-> FALSE,
               points |-> UpdatedPoints(step, samples, closureData),
               regressionCoeffs |->
                   TrainRegression(UpdatedPoints(step, samples, closureData),
                                   closureData.regressionCoeffs)],
          calibrationStep |-> "done"]
    ELSE [isProcessingSamples |-> TRUE,
          calibrationData |->
              [isNull |-> FALSE,
               points |-> UpdatedPoints(step, samples, closureData),
               regressionCoeffs |-> closureData.regressionCoeffs],
          calibrationStep |->
              IF transitionMap(step) # "none" THEN transitionMap(step)
              ELSE cur.calibrationStep]

\* processCollectedSamples with setCalibrationStep('done') moved inside the
\* branch that stores the coefficients
processCollectedSamplesDoneWhenTrained(step, samples, closureData, cur) ==
    IF 2 * BagCardinality(samples) < CALIBRATION_FRAMES THEN cur
    ELSE [ProcessBuffer(step, samples, closureData, cur) EXCEPT
              !.calibrationStep =
                  IF step = "collecting_top_left"
                        /\ Cardinality(DOMAIN closureData.points \cup {step})
                               < MIN_TRAINING_ROWS
                  THEN cur.calibrationStep ELSE @]

\* processCollectedSamples with the guard at a quarter of CALIBRATION_FRAMES
processCollectedSamplesQuarter(step, samples, closureData, cur) ==
    IF 4 * BagCardinality(samples) < CALIBRATION_FRAMES THEN cur
    ELSE ProcessBuffer(step, samples, closureData, cur)

\* processCollectedSamples(step)
processCollectedSamples(step, samples, closureData, cur) ==
    IF 2 * BagCardinality(samples) < CALIBRATION_FRAMES THEN cur
    ELSE ProcessBuffer(step, samples, closureData, cur)

\* handleCalibrationSample calling processCollectedSamples after every
\* push, whatever the length of the buffer and the processing flag
handleCalibrationSampleEveryPush(sample, closureStep, closureData, cur) ==
    IF closureStep \in CollectingSteps
          /\ BagCardinality(cur.calibrationSamples) < CALIBRATION_FRAMES
    THEN [calibrationSamples |-> cur.calibrationSamples (+) SetToBag({sample})]
            @@ processCollectedSamples(closureStep,
                   cur.calibrationSamples (+) SetToBag({sample}), closureData,
                   [isProcessingSamples |-> cur.isProcessingSamples,
                    calibrationData |-> cur.calibrationData,
                    calibrationStep |-> cur.calibrationStep])
    ELSE cur

\* handleCalibrationSample accepting a sample while the buffer holds
\* CALIBRATION_FRAMES or fewer
handleCalibrationSampleInclusive(sample, closureStep, closureData, cur) ==
    IF closureStep \in CollectingSteps
          /\ BagCardinality(cur.calibrationSamples) <= CALIBRATION_FRAMES
    THEN IF BagCardinality(cur.calibrationSamples) + 1 = CALIBRATION_FRAMES
               /\ ~cur.isProcessingSamples
         THEN [calibrationSamples |-> cur.calibrationSamples (+) SetToBag({sample})]
                 @@ processCollectedSamples(closureStep,
                        cur.calibrationSamples (+) SetToBag({sample}), closureData,
                        [isProcessingSamples |-> cur.isProcessingSamples,
                         calibrationData |-> cur.calibrationData,
                         calibrationStep |-> cur.calibrationStep])
         ELSE [cur EXCEPT !.calibrationSamples = @ (+) SetToBag({sample})]
    ELSE cur

\* the progress prop of CalibrationDisplay, rendered at step `step` with
\* the buffer `samples`
progress(step, samples) ==
    IF step \in CollectingSteps
    THEN Rat(BagCardinality(samples), CALIBRATION_FRAMES)
    ELSE RInt(0)

\* handleCalibrationSample(sample): `closureStep` is the calibrationStep its
\* closure captured; the result is [calibrationSamples, isProcessingSamples,
\* calibrationData, calibrationStep] afterwards
handleCalibrationSample(sample, closureStep, closureData, cur) ==
    IF closureStep \in CollectingSteps
          /\ BagCardinality(cur.calibrationSamples) < CALIBRATION_FRAMES
    THEN IF BagCardinality(cur.calibrationSamples) + 1 = CALIBRATION_FRAMES
               /\ ~cur.isProcessingSamples
         THEN [calibrationSamples |-> cur.calibrationSamples (+) SetToBag({sample})]
                 @@ processCollectedSamples(closureStep,
                        cur.calibrationSamples (+) SetToBag({sample}), closureData,
                        [isProcessingSamples |-> cur.isProcessingSamples,
                         calibrationData |-> cur.calibrationData,
                         calibrationStep |-> cur.calibrationStep])
         ELSE [cur EXCEPT !.calibrationSamples = @ (+) SetToBag({sample})]
    ELSE cur

(***************************************************************************)
(* A frame as the detector and the geometry extraction deliver it: whether *)
(* a face was found, the length of the landmark array, whether the six     *)
(* required landmarks are present, the raw per-eye gaze vectors            *)
(* (rawVec_R, rawVec_L of drawLandmarks, after the head pose correction),  *)
(* the eye centres and the canvas size in pixels.                          *)
(***************************************************************************)
Frame(face, numLandmarks, complete, vx, vy) ==
    [face |-> face, numLandmarks |-> numLandmarks, complete |-> complete,
     rawVec_R |-> [x |-> vx, y |-> vy], rawVec_L |-> [x |-> vx, y |-> vy],
     rightEyeCenterX |-> 260, rightEyeCenterY |-> 240,
     leftEyeCenterX |-> 380, leftEyeCenterY |-> 240,
     width |-> 640, height |-> 480]

NoFaceFrame == Frame(FALSE, 0, FALSE, 0, 0)
ShortFrame == Frame(TRUE, MIN_LANDMARKS, TRUE, 0, 0)
\* 478 landmarks of which an iris centre (468 or 473) is missing
IncompleteFrame == Frame(TRUE, MIN_LANDMARKS + 5, FALSE, 0, 0)
ValidFrame(vx, vy) == Frame(TRUE, MIN_LANDMARKS + 5, TRUE, vx, vy)

\* the frame with valid geometry the model feeds: both raw vectors are
\* (MaxRaw, -1)
GazingFrame == ValidFrame(MaxRaw, -1)

\* the landmark count test written as >= 473
HasGeometryFrom473(frame) ==
    frame.face /\ frame.numLandmarks >= MIN_LANDMARKS /\ frame.complete

\* landmarks.length > 473 and the six landmarks are all present
HasGeometry(frame) ==
    frame.face /\ frame.numLandmarks > MIN_LANDMARKS /\ frame.complete

ZeroSmoothed == [x_R |-> 0, y_R |-> 0, x_L |-> 0, y_L |-> 0]

\* smoothed = SMOOTHING_FACTOR * raw + (1 - SMOOTHING_FACTOR) * smoothed,
\* on scalars held in units of 1/FP
Smooth(raw, smoothed) ==
    (SMOOTHING_NUM * raw * FP + (SMOOTHING_DEN - SMOOTHING_NUM) * smoothed)
        \div SMOOTHING_DEN

SmoothAll(frame, smoothed) ==
    [x_R |-> Smooth(frame.rawVec_R.x, smoothed.x_R),
     y_R |-> Smooth(frame.rawVec_R.y, smoothed.y_R),
     x_L |-> Smooth(frame.rawVec_L.x, smoothed.x_L),
     y_L |-> Smooth(frame.rawVec_L.y, smoothed.y_L)]

\* Math.hypot, exact when one argument is 0 and rounded down otherwise
Hypot(a, b) ==
    IF b = 0 THEN Abs(a) ELSE IF a = 0 THEN Abs(b) ELSE ISqrt(a * a + b * b)

dot(a, b) == RSum([i \in 1..Len(a) |-> RMul(a[i], b[i])])

\* a clamp that lacks Math.max(0, ...)
Clamp01UpperOnly(x) == RMin(RInt(1), x)

Clamp01(x) == RMax(RInt(0), RMin(RInt(1), x))

NoGaze == [none |-> TRUE, u |-> RInt(0), v |-> RInt(0)]

\* a gaze follower calculation whose regression features are doubled in
\* high sensitivity mode
GazePredictorSensitiveRegression(frame, sm, cal, highSensitivity) ==
    LET avgVecX == Rat(sm.x_R + sm.x_L, 2 * FP)
        avgVecY == Rat(sm.y_R + sm.y_L, 2 * FP)
        thirdEyeCenterX == Rat(frame.rightEyeCenterX + frame.leftEyeCenterX, 2)
        thirdEyeCenterY == Rat(frame.rightEyeCenterY + frame.leftEyeCenterY, 2)
    IN  IF ~cal.isNull /\ cal.regressionCoeffs # NoCoeffs
        THEN LET gain == IF highSensitivity THEN RInt(2) ELSE RInt(1)
                 features == <<RInt(1), RMul(avgVecX, gain), RMul(avgVecY, gain)>>
             IN  [none |-> FALSE,
                  u |-> Clamp01(dot(features, cal.regressionCoeffs.u)),
                  v |-> Clamp01(dot(features, cal.regressionCoeffs.v))]
        ELSE LET strength == IF highSensitivity
                             THEN GAZE_PROJECTION_STRENGTH_HIGH
                             ELSE GAZE_PROJECTION_STRENGTH_LOW
                 interOcularDistance ==
                     Hypot(frame.leftEyeCenterX - frame.rightEyeCenterX,
                           frame.leftEyeCenterY - frame.rightEyeCenterY)
                 dynamicSensitivity ==
                     IF interOcularDistance > MIN_INTER_OCULAR_DISTANCE
                     THEN Rat(strength * REFERENCE_INTER_OCULAR_DISTANCE,
                              interOcularDistance)
                     ELSE RInt(strength)
                 gazePointX == RAdd(thirdEyeCenterX, RMul(avgVecX, dynamicSensitivity))
                 gazePointY == RAdd(thirdEyeCenterY, RMul(avgVecY, dynamicSensitivity))
             IN  [none |-> FALSE,
                  u |-> RDiv(gazePointX, RInt(frame.width)),
                  v |-> RDiv(gazePointY, RInt(frame.height))]

\* the gaze follower calculation of drawLandmarks: `sm` are the smoothing
\* scalars after this frame's update, `cal` is calibrationState.data
GazePredictor(frame, sm, cal, highSensitivity) ==
    LET avgVecX == Rat(sm.x_R + sm.x_L, 2 * FP)
        avgVecY == Rat(sm.y_R + sm.y_L, 2 * FP)
        thirdEyeCenterX == Rat(frame.rightEyeCenterX + frame.leftEyeCenterX, 2)
        thirdEyeCenterY == Rat(frame.rightEyeCenterY + frame.leftEyeCenterY, 2)
    IN  IF ~cal.isNull /\ cal.regressionCoeffs # NoCoeffs
        THEN LET features == <<RInt(1), avgVecX, avgVecY>>
             IN  [none |-> FALSE,
                  u |-> Clamp01(dot(features, cal.regressionCoeffs.u)),
                  v |-> Clamp01(dot(features, cal.regressionCoeffs.v))]
        ELSE LET strength == IF highSensitivity
                             THEN GAZE_PROJECTION_STRENGTH_HIGH
                             ELSE GAZE_PROJECTION_STRENGTH_LOW
                 interOcularDistance ==
                     Hypot(frame.leftEyeCenterX - frame.rightEyeCenterX,
                           frame.leftEyeCenterY - frame.rightEyeCenterY)
                 dynamicSensitivity ==
                     IF interOcularDistance > MIN_INTER_OCULAR_DISTANCE
                     THEN Rat(strength * REFERENCE_INTER_OCULAR_DISTANCE,
                              interOcularDistance)
                     ELSE RInt(strength)
                 gazePointX == RAdd(thirdEyeCenterX, RMul(avgVecX, dynamicSensitivity))
                 gazePointY == RAdd(thirdEyeCenterY, RMul(avgVecY, dynamicSensitivity))
             IN  [none |-> FALSE,
                  u |-> RDiv(gazePointX, RInt(frame.width)),
                  v |-> RDiv(gazePointY, RInt(frame.height))]

(***************************************************************************)
(* State                                                                   *)
(***************************************************************************)
VARIABLES
    mounted,              \* the WebcamLandmarker component is mounted
    webcamRunning,        \* useState, WebcamLandmarker
    isCalibrating,        \* useState, App
    highSensitivity,      \* useState, App
    calibrationStep,      \* useState, WebcamLandmarker
    calibrationData,      \* useState, WebcamLandmarker
    gazePoint,            \* useState, App: the last onGazeUpdate (normalized)
    rendered,             \* the state the closures of the last commit captured
    timers,               \* pending window.setTimeout callbacks: their nextStep
    timeoutId,            \* the timer the last calibration effect cleans up
    calibrationSamples,   \* useRef
    isProcessingSamples,  \* useRef
    lastVideoFrameRef,    \* useRef
    smoothedVec,          \* smoothedVecX_R, smoothedVecY_R, smoothedVecX_L, smoothedVecY_L
    argument,             \* the arguments of a utility function called on its own
    returned              \* what that call returned

vars == << mounted, webcamRunning, isCalibrating, highSensitivity, calibrationStep,
           calibrationData, gazePoint, rendered, timers, timeoutId,
           calibrationSamples, isProcessingSamples, lastVideoFrameRef, smoothedVec,
           argument, returned >>

\* the React state a render started now would read
Current ==
    [webcamRunning |-> webcamRunning, isCalibrating |-> isCalibrating,
     highSensitivity |-> highSensitivity, calibrationStep |-> calibrationStep,
     calibrationData |-> calibrationData]

\* the state of the freshly mounted components
InitComponent ==
    /\ mounted = TRUE
    /\ webcamRunning = FALSE
    /\ isCalibrating = FALSE
    /\ highSensitivity = FALSE
    /\ calibrationStep = "idle"
    /\ calibrationData = NullData
    /\ gazePoint = NoGaze
    /\ rendered = [webcamRunning |-> FALSE, isCalibrating |-> FALSE,
                   highSensitivity |-> FALSE, calibrationStep |-> "idle",
                   calibrationData |-> NullData]
    /\ timers = <<>>
    /\ timeoutId = "none"
    /\ calibrationSamples = EmptyBag
    /\ isProcessingSamples = FALSE
    /\ lastVideoFrameRef = -1
    /\ smoothedVec = ZeroSmoothed

Init ==
    /\ InitComponent
    /\ argument = <<>>
    /\ returned = <<>>

(***************************************************************************)
(* Commit of a render and its effects                                      *)
(***************************************************************************)
\* a cleanup that cancels nothing
clearTimeoutNothing(pending, id) == pending

\* clearTimeout(id): the pending timer with this id, if any, is removed
clearTimeout(pending, id) ==
    IF \E i \in 1..Len(pending) : pending[i] = id
    THEN LET i == CHOOSE j \in 1..Len(pending) :
                      pending[j] = id /\ \A k \in 1..(j - 1) : pending[k] # id
         IN  SubSeq(pending, 1, i - 1) \o SubSeq(pending, i + 1, Len(pending))
    ELSE pending

\* a commit whose calibration effect lacks
\* `if (!isCalibrating) setCalibrationStep('idle')`
CommitKeepingStep(st) ==
    LET calDeps == st.calibrationStep # rendered.calibrationStep
                      \/ st.isCalibrating # rendered.isCalibrating
        cleaned == IF calDeps THEN clearTimeout(timers, timeoutId) ELSE timers
        target == AwaitTarget(st.calibrationStep)
    IN  /\ rendered' = st
        /\ webcamRunning' = st.webcamRunning
        /\ isCalibrating' = st.isCalibrating
        /\ highSensitivity' = st.highSensitivity
        /\ calibrationData' = st.calibrationData
        /\ calibrationStep' = st.calibrationStep
        /\ timers' = IF calDeps /\ st.isCalibrating /\ target # "none"
                     THEN Append(cleaned, target) ELSE cleaned
        /\ timeoutId' = IF ~calDeps THEN timeoutId
                        ELSE IF st.isCalibrating THEN target ELSE "none"
        /\ lastVideoFrameRef' =
              IF st.webcamRunning # rendered.webcamRunning /\ rendered.webcamRunning
              THEN -1 ELSE lastVideoFrameRef

\* The commit of a render of state `st`: the calibration effect (deps
\* calibrationStep, isCalibrating) and the video callback loop effect (deps
\* webcamRunning) run their cleanup and body when a dep changed; the
\* closures (predictCallbackRef, the click handlers) now capture `st`.
Commit(st) ==
    LET calDeps == st.calibrationStep # rendered.calibrationStep
                      \/ st.isCalibrating # rendered.isCalibrating
        cleaned == IF calDeps THEN clearTimeout(timers, timeoutId) ELSE timers
        target == AwaitTarget(st.calibrationStep)
    IN  /\ rendered' = st
        /\ webcamRunning' = st.webcamRunning
        /\ isCalibrating' = st.isCalibrating
        /\ highSensitivity' = st.highSensitivity
        /\ calibrationData' = st.calibrationData
        /\ calibrationStep' = IF calDeps /\ ~st.isCalibrating THEN "idle"
                              ELSE st.calibrationStep
        /\ timers' = IF calDeps /\ st.isCalibrating /\ target # "none"
                     THEN Append(cleaned, target) ELSE cleaned
        /\ timeoutId' = IF ~calDeps THEN timeoutId
                        ELSE IF st.isCalibrating THEN target ELSE "none"
        /\ lastVideoFrameRef' =
              IF st.webcamRunning # rendered.webcamRunning /\ rendered.webcamRunning
              THEN -1 ELSE lastVideoFrameRef

\* a render left pending by a frame callback, a timer or an effect commits
Render ==
    /\ mounted
    /\ rendered # Current
    /\ Commit(Current)
    /\ UNCHANGED << argument, returned, mounted, gazePoint, calibrationSamples, isProcessingSamples, smoothedVec >>

(***************************************************************************)
(* Click handlers.  A button can be clicked when the last commit rendered  *)
(* it; the state updates of a click commit before anything else runs.      *)
(***************************************************************************)
\* a handleStartCalibration that leaves the calibration data in place
handleStartCalibrationKeepingData ==
    /\ calibrationSamples' = EmptyBag
    /\ Commit([Current EXCEPT !.calibrationStep = "collecting_center"])
    /\ UNCHANGED << argument, returned, mounted, gazePoint, isProcessingSamples, smoothedVec >>

\* a handleStartCalibration that empties the points but keeps the
\* regression coefficients of the run before
handleStartCalibrationKeepingCoeffs ==
    /\ calibrationSamples' = EmptyBag
    /\ Commit([Current EXCEPT
                  !.calibrationData =
                      [EmptyData EXCEPT
                          !.regressionCoeffs = calibrationData.regressionCoeffs],
                  !.calibrationStep = "collecting_center"])
    /\ UNCHANGED << argument, returned, mounted, gazePoint, isProcessingSamples, smoothedVec >>

\* handleStartCalibration
handleStartCalibration ==
    /\ calibrationSamples' = EmptyBag
    /\ Commit([Current EXCEPT !.calibrationData = EmptyData,
                              !.calibrationStep = "collecting_center"])
    /\ UNCHANGED << argument, returned, mounted, gazePoint, isProcessingSamples, smoothedVec >>

\* "Start Calibration", rendered by CalibrationDisplay when step is idle
StartCalibration ==
    /\ mounted /\ rendered.isCalibrating
    /\ rendered.calibrationStep = "idle"
    /\ handleStartCalibration

\* "Recalibrate", rendered by CalibrationDisplay when step is done
ResetCalibration ==
    /\ mounted /\ rendered.isCalibrating
    /\ rendered.calibrationStep = "done"
    /\ handleStartCalibration

\* setIsCalibrating(false)
setIsCalibratingFalse ==
    /\ Commit([Current EXCEPT !.isCalibrating = FALSE])
    /\ UNCHANGED << argument, returned, mounted, gazePoint, calibrationSamples, isProcessingSamples,
                    smoothedVec >>

\* "Finish", rendered by CalibrationDisplay when step is done
FinishCalibration ==
    /\ mounted /\ rendered.isCalibrating
    /\ rendered.calibrationStep = "done"
    /\ setIsCalibratingFalse

\* a "CALIBRATE GAZE" button that is enabled, and whose handler goes on,
\* with the webcam off
CalibrateGazeWithoutWebcam ==
    /\ mounted /\ ~rendered.isCalibrating
    /\ Commit([Current EXCEPT !.isCalibrating = TRUE, !.calibrationStep = "idle"])
    /\ UNCHANGED << argument, returned, mounted, gazePoint, calibrationSamples, isProcessingSamples,
                    smoothedVec >>

\* "CALIBRATE GAZE", rendered when not calibrating, enabled when the webcam runs
CalibrateGaze ==
    /\ mounted /\ ~rendered.isCalibrating
    /\ rendered.webcamRunning
    /\ Commit([Current EXCEPT !.isCalibrating = TRUE, !.calibrationStep = "idle"])
    /\ UNCHANGED << argument, returned, mounted, gazePoint, calibrationSamples, isProcessingSamples,
                    smoothedVec >>

\* enableCam with the webcam off: the stream is requested and, once its
\* data has loaded, setWebcamRunning(true) leaves a render pending
EnableCam ==
    /\ mounted /\ ~rendered.isCalibrating
    /\ ~rendered.webcamRunning
    /\ webcamRunning' = TRUE
    /\ UNCHANGED << argument, returned, mounted, isCalibrating, highSensitivity, calibrationStep,
                    calibrationData, gazePoint, rendered, timers, timeoutId,
                    calibrationSamples, isProcessingSamples, lastVideoFrameRef,
                    smoothedVec >>

\* enableCam with the webcam on
DisableCam ==
    /\ mounted /\ ~rendered.isCalibrating
    /\ rendered.webcamRunning
    /\ gazePoint' = NoGaze
    /\ Commit([Current EXCEPT !.webcamRunning = FALSE, !.isCalibrating = FALSE])
    /\ UNCHANGED << argument, returned, mounted, calibrationSamples, isProcessingSamples, smoothedVec >>

\* the high sensitivity checkbox, rendered when not calibrating
ToggleHighSensitivity ==
    /\ mounted /\ ~rendered.isCalibrating
    /\ rendered.webcamRunning
    /\ Commit([Current EXCEPT !.highSensitivity = ~highSensitivity])
    /\ UNCHANGED << argument, returned, mounted, gazePoint, calibrationSamples, isProcessingSamples,
                    smoothedVec >>

(***************************************************************************)
(* Timer callback of advanceState                                          *)
(***************************************************************************)
\* a timer callback that leaves the sample buffer as it is
TimerFiresKeepingSamples ==
    /\ mounted
    /\ \E i \in 1..Len(timers) :
          /\ timers' = SubSeq(timers, 1, i - 1) \o SubSeq(timers, i + 1, Len(timers))
          /\ calibrationStep' = timers[i]
    /\ isProcessingSamples' = FALSE
    /\ UNCHANGED << argument, returned, mounted, webcamRunning, isCalibrating,
                    highSensitivity, calibrationData, gazePoint, rendered, timeoutId,
                    calibrationSamples, lastVideoFrameRef, smoothedVec >>

TimerFires ==
    /\ mounted
    /\ \E i \in 1..Len(timers) :
          /\ timers' = SubSeq(timers, 1, i - 1) \o SubSeq(timers, i + 1, Len(timers))
          /\ calibrationStep' = timers[i]
    /\ calibrationSamples' = EmptyBag
    /\ isProcessingSamples' = FALSE
    /\ UNCHANGED << argument, returned, mounted, webcamRunning, isCalibrating, highSensitivity,
                    calibrationData, gazePoint, rendered, timeoutId,
                    lastVideoFrameRef, smoothedVec >>

(***************************************************************************)
(* Frame callback                                                          *)
(***************************************************************************)
\* a drawLandmarks that delivers the smoothed vectors of the frame as the
\* calibration sample
drawLandmarksSmoothedSample(frame, calState, highSens, sm, cur) ==
    IF HasGeometry(frame)
    THEN LET smoothed == SmoothAll(frame, sm)
         IN  [gaze |-> GazePredictor(frame, smoothed, calState.data, highSens),
              smoothedVec |-> smoothed,
              controller |->
                  IF calState.step \in CollectingSteps /\ calState.onCalibrationSample
                  THEN handleCalibrationSample(
                           [vec_R |-> [x |-> smoothed.x_R, y |-> smoothed.y_R],
                            vec_L |-> [x |-> smoothed.x_L, y |-> smoothed.y_L]],
                           calState.closureStep, calState.data, cur)
                  ELSE cur]
    ELSE [gaze |-> NoGaze, smoothedVec |-> ZeroSmoothed, controller |-> cur]

\* drawLandmarks on the landmarks of `frame`: `calState` is the
\* calibrationState passed in, `sm` the smoothing scalars, `cur` the
\* controller state [calibrationSamples, isProcessingSamples,
\* calibrationData, calibrationStep]; the result is the returned gaze
\* point, the smoothing scalars and the controller state afterwards
drawLandmarks(frame, calState, highSens, sm, cur) ==
    IF HasGeometry(frame)
    THEN LET smoothed == SmoothAll(frame, sm)
         IN  [gaze |-> GazePredictor(frame, smoothed, calState.data, highSens),
              smoothedVec |-> smoothed,
              controller |->
                  IF calState.step \in CollectingSteps /\ calState.onCalibrationSample
                  THEN handleCalibrationSample(
                           [vec_R |-> frame.rawVec_R, vec_L |-> frame.rawVec_L],
                           calState.closureStep, calState.data, cur)
                  ELSE cur]
    ELSE [gaze |-> NoGaze, smoothedVec |-> ZeroSmoothed, controller |-> cur]

\* predictCallbackRef.current with the frame guard written
\* `presentedFrames < lastVideoFrameRef.current`
FrameOutcomeRepeating(presentedFrames, frame) ==
    IF presentedFrames < lastVideoFrameRef
    THEN [lastVideoFrameRef |-> lastVideoFrameRef,
          drawn |-> [gaze |-> gazePoint, smoothedVec |-> smoothedVec,
                     controller |-> [calibrationSamples |-> calibrationSamples,
                                     isProcessingSamples |-> isProcessingSamples,
                                     calibrationData |-> calibrationData,
                                     calibrationStep |-> calibrationStep]]]
    ELSE LET calState == [step |-> IF rendered.isCalibrating
                                   THEN rendered.calibrationStep ELSE "idle",
                          closureStep |-> rendered.calibrationStep,
                          data |-> rendered.calibrationData,
                          onCalibrationSample |-> rendered.isCalibrating]
             cur == [calibrationSamples |-> calibrationSamples,
                     isProcessingSamples |-> isProcessingSamples,
                     calibrationData |-> calibrationData,
                     calibrationStep |-> calibrationStep]
         IN  [lastVideoFrameRef |-> IF presentedFrames > MaxFrameId
                                    THEN MaxFrameId ELSE presentedFrames,
              drawn |-> IF frame.face
                        THEN drawLandmarks(frame, calState,
                                 rendered.highSensitivity, smoothedVec, cur)
                        ELSE [gaze |-> NoGaze, smoothedVec |-> smoothedVec,
                              controller |-> cur]]

\* a predictCallback that passes the step and the sample handler whether or
\* not calibration mode is active
FrameOutcomeAlwaysSampling(presentedFrames, frame) ==
    IF presentedFrames <= lastVideoFrameRef
    THEN [lastVideoFrameRef |-> lastVideoFrameRef,
          drawn |-> [gaze |-> gazePoint, smoothedVec |-> smoothedVec,
                     controller |-> [calibrationSamples |-> calibrationSamples,
                                     isProcessingSamples |-> isProcessingSamples,
                                     calibrationData |-> calibrationData,
                                     calibrationStep |-> calibrationStep]]]
    ELSE LET calState == [step |-> rendered.calibrationStep,
                          closureStep |-> rendered.calibrationStep,
                          data |-> rendered.calibrationData,
                          onCalibrationSample |-> TRUE]
             cur == [calibrationSamples |-> calibrationSamples,
                     isProcessingSamples |-> isProcessingSamples,
                     calibrationData |-> calibrationData,
                     calibrationStep |-> calibrationStep]
         IN  [lastVideoFrameRef |-> IF presentedFrames > MaxFrameId
                                    THEN MaxFrameId ELSE presentedFrames,
              drawn |-> IF frame.face
                        THEN drawLandmarks(frame, calState,
                                 rendered.highSensitivity, smoothedVec, cur)
                        ELSE [gaze |-> NoGaze, smoothedVec |-> smoothedVec,
                              controller |-> cur]]

\* what predictCallbackRef.current leaves behind when called for a frame
\* with identifier `presentedFrames` and detection result `frame`:
\* lastVideoFrameRef, the gaze point passed to onGazeUpdate, the smoothing
\* scalars and the controller state
FrameOutcome(presentedFrames, frame) ==
    IF presentedFrames <= lastVideoFrameRef
    THEN [lastVideoFrameRef |-> lastVideoFrameRef,
          drawn |-> [gaze |-> gazePoint, smoothedVec |-> smoothedVec,
                     controller |-> [calibrationSamples |-> calibrationSamples,
                                     isProcessingSamples |-> isProcessingSamples,
                                     calibrationData |-> calibrationData,
                                     calibrationStep |-> calibrationStep]]]
    ELSE LET calState == [step |-> IF rendered.isCalibrating
                                   THEN rendered.calibrationStep ELSE "idle",
                          closureStep |-> rendered.calibrationStep,
                          data |-> rendered.calibrationData,
                          onCalibrationSample |-> rendered.isCalibrating]
             cur == [calibrationSamples |-> calibrationSamples,
                     isProcessingSamples |-> isProcessingSamples,
                     calibrationData |-> calibrationData,
                     calibrationStep |-> calibrationStep]
         IN  [lastVideoFrameRef |-> IF presentedFrames > MaxFrameId
                                    THEN MaxFrameId ELSE presentedFrames,
              drawn |-> IF frame.face
                        THEN drawLandmarks(frame, calState,
                                 rendered.highSensitivity, smoothedVec, cur)
                        ELSE [gaze |-> NoGaze, smoothedVec |-> smoothedVec,
                              controller |-> cur]]

\* predictCallbackRef.current called for a frame with identifier
\* `presentedFrames` and detection result `frame`
predictCallback(presentedFrames, frame) ==
    /\ mounted
    /\ rendered.webcamRunning
    /\ \E after \in { FrameOutcome(presentedFrames, frame) } :
          /\ lastVideoFrameRef' = after.lastVideoFrameRef
          /\ gazePoint' = after.drawn.gaze
          /\ smoothedVec' = after.drawn.smoothedVec
          /\ calibrationSamples' = after.drawn.controller.calibrationSamples
          /\ isProcessingSamples' = after.drawn.controller.isProcessingSamples
          /\ calibrationData' = after.drawn.controller.calibrationData
          /\ calibrationStep' = after.drawn.controller.calibrationStep
    /\ UNCHANGED << argument, returned, mounted, webcamRunning, isCalibrating, highSensitivity,
                    rendered, timers, timeoutId >>

(***************************************************************************)
(* The program: the buttons are those the components render                *)
(***************************************************************************)
FrameIds == 0..(MaxFrameId + 1)

Frames == { NoFaceFrame, ShortFrame, IncompleteFrame, GazingFrame }

FrameArrives == \E pf \in FrameIds, f \in Frames : predictCallback(pf, f)

Next ==
    \/ Render
    \/ EnableCam
    \/ DisableCam
    \/ CalibrateGaze
    \/ StartCalibration
    \/ ResetCalibration
    \/ FinishCalibration
    \/ ToggleHighSensitivity
    \/ TimerFires
    \/ FrameArrives

Spec == Init /\ [][Next]_vars

(***************************************************************************)
(* The controller driven through its interface: reset (onReset) and the    *)
(* exit of calibration mode (the isCalibrating prop) may come at any step, *)
(* and the component may unmount.  The webcam, once enabled, stays on and  *)
(* the sensitivity stays as it is.                                         *)
(***************************************************************************)
\* onReset issued at any non-idle step
ResetCalibrationAny ==
    /\ mounted /\ rendered.isCalibrating
    /\ rendered.calibrationStep # "idle"
    /\ handleStartCalibration

\* the isCalibrating prop becomes false at any step
ExitCalibrationAny ==
    /\ mounted /\ rendered.isCalibrating
    /\ setIsCalibratingFalse

\* unmount: the cleanup of every effect runs
Unmount ==
    /\ mounted
    /\ mounted' = FALSE
    /\ timers' = IF rendered.isCalibrating THEN clearTimeout(timers, timeoutId) ELSE timers
    /\ lastVideoFrameRef' = IF rendered.webcamRunning THEN -1 ELSE lastVideoFrameRef
    /\ UNCHANGED << argument, returned, webcamRunning, isCalibrating, highSensitivity,
                    calibrationStep, calibrationData, gazePoint, rendered, timeoutId,
                    calibrationSamples, isProcessingSamples, smoothedVec >>

NextAny ==
    \/ Render
    \/ EnableCam
    \/ CalibrateGaze
    \/ StartCalibration
    \/ ResetCalibrationAny
    \/ ExitCalibrationAny
    \/ TimerFires
    \/ FrameArrives
    \/ Unmount

SpecAny == Init /\ [][NextAny]_vars

(***************************************************************************)
(* The program under the scheduling the browser guarantees: a pending      *)
(* render commits, a pending timer fires, and frames with valid geometry   *)
(* keep arriving while the video callback loop is registered.              *)
(***************************************************************************)
ValidFrameArrives ==
    \E pf \in FrameIds : predictCallback(pf, GazingFrame)

\* a frame with valid geometry can arrive and change the state: the
\* enabling condition of <<ValidFrameArrives>>_vars
ValidFrameEnabled ==
    /\ mounted
    /\ rendered.webcamRunning
    /\ \E pf \in FrameIds :
          FrameOutcome(pf, GazingFrame)
              # FrameOutcome(lastVideoFrameRef, GazingFrame)

\* weak fairness of Render and of TimerFires, and of ValidFrameArrives with
\* its enabling condition written as ValidFrameEnabled
FairSpec ==
    /\ Init /\ [][Next]_vars
    /\ WF_vars(Render)
    /\ WF_vars(TimerFires)
    /\ ([]<>(~ValidFrameEnabled) \/ []<><<ValidFrameArrives>>_vars)

(***************************************************************************)
(* processCollectedSamples called on any buffer: the buffer holds any      *)
(* number of samples up to CALIBRATION_FRAMES, the step is any collecting  *)
(* step and the calibration data holds the points of any prefix of the     *)
(* calibration sequence.                                                   *)
(***************************************************************************)
\* the calibration data after the first k points, each the average of a
\* buffer of GazingFrame samples
PrefixData(k) ==
    [isNull |-> FALSE,
     points |-> [key \in { StepOrder[i] : i \in 1..k } |->
                    [x |-> RInt(GazingFrame.rawVec_R.x),
                     y |-> RInt(GazingFrame.rawVec_R.y)]],
     regressionCoeffs |-> NoCoeffs]

SampleOf(frame) == [vec_R |-> frame.rawVec_R, vec_L |-> frame.rawVec_L]

InitProcess ==
    /\ mounted = TRUE
    /\ webcamRunning = TRUE
    /\ isCalibrating = TRUE
    /\ highSensitivity = FALSE
    /\ calibrationStep \in CollectingSteps
    /\ calibrationData \in {NullData} \cup { PrefixData(k) : k \in 0..(Len(StepOrder) - 1) }
    /\ gazePoint = NoGaze
    /\ rendered = Current
    /\ timers = <<>>
    /\ timeoutId = "none"
    /\ calibrationSamples \in
          { [s \in (IF n = 0 THEN {} ELSE {SampleOf(GazingFrame)}) |-> n] :
                n \in 0..CALIBRATION_FRAMES }
    /\ isProcessingSamples = FALSE
    /\ lastVideoFrameRef = -1
    /\ smoothedVec = ZeroSmoothed
    /\ argument = <<>>
    /\ returned = <<>>

\* processCollectedSamples(calibrationStep) is called
CallProcessCollectedSamples ==
    /\ rendered = Current
    /\ ~isProcessingSamples
    /\ \E after \in { processCollectedSamples(rendered.calibrationStep,
                          calibrationSamples, rendered.calibrationData,
                          [isProcessingSamples |-> isProcessingSamples,
                           calibrationData |-> calibrationData,
                           calibrationStep |-> calibrationStep]) } :
          /\ isProcessingSamples' = after.isProcessingSamples
          /\ calibrationData' = after.calibrationData
          /\ calibrationStep' = after.calibrationStep
    /\ UNCHANGED << argument, returned, mounted, webcamRunning, isCalibrating, highSensitivity, gazePoint,
                    rendered, timers, timeoutId, calibrationSamples,
                    lastVideoFrameRef, smoothedVec >>

NextProcess ==
    \/ CallProcessCollectedSamples
    \/ Render

SpecProcess == InitProcess /\ [][NextProcess]_vars

(***************************************************************************)
(* processCollectedSamples called on buffers with outliers: samples at 0   *)
(* in all four values, samples that are off in one of the four values      *)
(* only, by OutlierValue or by -OutlierValue, and samples that are off in  *)
(* all four values.                                                        *)
(***************************************************************************)
\* the sample whose value `c` is `value` and whose other values are 0
OneComponent(c, value) ==
    [vec_R |-> [x |-> IF c = "vec_R_x" THEN value ELSE 0,
                y |-> IF c = "vec_R_y" THEN value ELSE 0],
     vec_L |-> [x |-> IF c = "vec_L_x" THEN value ELSE 0,
                y |-> IF c = "vec_L_y" THEN value ELSE 0]]

\* the sample whose two vectors are (value, value)
AllComponents(value) ==
    [vec_R |-> [x |-> value, y |-> value], vec_L |-> [x |-> value, y |-> value]]

\* a buffer of, for each of the four values, `pos` samples off by
\* OutlierValue and `neg` samples off by -OutlierValue in that value only,
\* `all` samples at (OutlierValue, OutlierValue) and `rest` samples at (0, 0)
MixedBuffer(pos, neg, all, rest) ==
    LET copies ==
            [s \in { OneComponent(c, OutlierValue) : c \in Components } |-> pos]
            @@ [s \in { OneComponent(c, -OutlierValue) : c \in Components } |-> neg]
            @@ [s \in { AllComponents(OutlierValue) } |-> all]
            @@ [s \in { AllComponents(0) } |-> rest]
    IN  [s \in { t \in DOMAIN copies : copies[t] > 0 } |-> copies[s]]

MixedBuffers ==
    { MixedBuffer(q[1], q[2], q[3], q[4]) :
        q \in { r \in (0..MaxGroup) \X (0..MaxGroup) \X (0..1) \X (0..CALIBRATION_FRAMES) :
                  /\ 2 * (4 * (r[1] + r[2]) + r[3] + r[4]) >= CALIBRATION_FRAMES - 2
                  /\ 4 * (r[1] + r[2]) + r[3] + r[4] <= CALIBRATION_FRAMES } }

InitFilter ==
    /\ mounted = TRUE
    /\ webcamRunning = TRUE
    /\ isCalibrating = TRUE
    /\ highSensitivity = FALSE
    /\ calibrationStep = "collecting_center"
    /\ calibrationData = EmptyData
    /\ gazePoint = NoGaze
    /\ rendered = Current
    /\ timers = <<>>
    /\ timeoutId = "none"
    /\ calibrationSamples \in MixedBuffers
    /\ isProcessingSamples = FALSE
    /\ lastVideoFrameRef = -1
    /\ smoothedVec = ZeroSmoothed
    /\ argument = <<>>
    /\ returned = <<>>

SpecFilter == InitFilter /\ [][NextProcess]_vars

(***************************************************************************)
(* The gaze predictor called on its own: on any smoothed gaze vector, with  *)
(* no calibration data, with calibration data without coefficients, or     *)
(* with any coefficients, at either sensitivity.                           *)
(***************************************************************************)
VecValues == { -ExtremeVec, -MaxVec, -1, 0, 1, MaxVec, ExtremeVec }

CoeffValues == { RInt(-MaxCoeff), RInt(0), Rat(1, 2), RInt(MaxCoeff) }

CoeffVectors == { << a, b, c >> : a \in CoeffValues, b \in CoeffValues, c \in CoeffValues }

\* calibration data with the coefficients u and v
TrainedData(u, v) ==
    [isNull |-> FALSE, points |-> EmptyPoints, regressionCoeffs |-> [u |-> u, v |-> v]]

\* the smoothing scalars when both eyes' smoothed vectors are (vx, vy)
SmoothedAt(vx, vy) ==
    [x_R |-> vx * FP, y_R |-> vy * FP, x_L |-> vx * FP, y_L |-> vy * FP]

\* the coefficient pairs: v is u or u reversed
TrainedDataSet ==
    UNION { { TrainedData(c, d) : d \in { c, << c[3], c[2], c[1] >> } } :
              c \in CoeffVectors }

PredictArguments ==
    { [frame |-> GazingFrame, sm |-> SmoothedAt(vx, vy), cal |-> cal,
       highSensitivity |-> hs] :
         vx \in VecValues, vy \in VecValues, hs \in BOOLEAN,
         cal \in {NullData, EmptyData} \cup TrainedDataSet }

InitPredict ==
    /\ InitComponent
    /\ argument \in PredictArguments
    /\ returned = <<>>

\* the gaze follower calculation runs on the arguments
CallGazePredictor ==
    /\ returned = <<>>
    /\ returned' = << GazePredictor(argument.frame, argument.sm, argument.cal,
                                    argument.highSensitivity) >>
    /\ UNCHANGED << argument, mounted, webcamRunning, isCalibrating, highSensitivity,
                    calibrationStep, calibrationData, gazePoint, rendered, timers,
                    timeoutId, calibrationSamples, isProcessingSamples,
                    lastVideoFrameRef, smoothedVec >>

NextPredict == CallGazePredictor

SpecPredict == InitPredict /\ [][NextPredict]_vars

\* two runs of the gaze follower calculation side by side: both are given
\* the same calibration data and smoothed vectors with the same average,
\* and any frame geometry and sensitivity flag each
PairVecValues == { -MaxVec, -1, 0, 1, MaxVec }

\* smoothing scalars whose average is (vx, vy) with the two eyes apart
SplitSmoothed(vx, vy) ==
    [x_R |-> (vx + 1) * FP, y_R |-> (vy - 1) * FP,
     x_L |-> (vx - 1) * FP, y_L |-> (vy + 1) * FP]

\* frames with valid geometry that differ in the eye centers, in the
\* inter-ocular distance (120, 60 and 8 pixels) and in the canvas size
FrameVariants ==
    { GazingFrame,
      [GazingFrame EXCEPT !.rightEyeCenterX = 300, !.leftEyeCenterX = 360,
                          !.rightEyeCenterY = 200, !.leftEyeCenterY = 200],
      [GazingFrame EXCEPT !.rightEyeCenterX = 316, !.leftEyeCenterX = 324],
      [GazingFrame EXCEPT !.width = 1280, !.height = 720] }

\* no data, data without coefficients, and coefficient pairs with v the
\* reverse of u
PairData ==
    {NullData, EmptyData}
        \cup { TrainedData(c, << c[3], c[2], c[1] >>) : c \in CoeffVectors }

PredictPairArguments ==
    { [left |-> [frame |-> GazingFrame, sm |-> SmoothedAt(vx, vy),
                 cal |-> cal, highSensitivity |-> hs1],
       right |-> [frame |-> f,
                  sm |-> IF split THEN SplitSmoothed(vx, vy)
                                  ELSE SmoothedAt(vx, vy),
                  cal |-> cal, highSensitivity |-> hs2]] :
         vx \in PairVecValues, vy \in PairVecValues, cal \in PairData,
         hs1 \in BOOLEAN, hs2 \in BOOLEAN, f \in FrameVariants,
         split \in BOOLEAN }

InitPredictPair ==
    /\ InitComponent
    /\ argument \in PredictPairArguments
    /\ returned = <<>>

\* the gaze follower calculation runs on each of the two arguments
CallGazePredictorPair ==
    /\ returned = <<>>
    /\ returned' = << GazePredictor(argument.left.frame, argument.left.sm,
                                    argument.left.cal,
                                    argument.left.highSensitivity),
                      GazePredictor(argument.right.frame, argument.right.sm,
                                    argument.right.cal,
                                    argument.right.highSensitivity) >>
    /\ UNCHANGED << argument, mounted, webcamRunning, isCalibrating, highSensitivity,
                    calibrationStep, calibrationData, gazePoint, rendered, timers,
                    timeoutId, calibrationSamples, isProcessingSamples,
                    lastVideoFrameRef, smoothedVec >>

NextPredictPair == CallGazePredictorPair

SpecPredictPair == InitPredictPair /\ [][NextPredictPair]_vars

(***************************************************************************)
(* invert and ridgeRegression called on their own, on matrices of small    *)
(* integers: empty, non-square, singular and invertible ones.              *)
(***************************************************************************)
\* the matrices of `numRows` rows and `numCols` columns with entries in
\* `entries`
Matrices(numRows, numCols, entries) ==
    [1..numRows -> [1..numCols -> { RInt(e) : e \in entries }]]

\* the arguments of invert: the empty matrix, the matrices of up to 2 rows
\* and up to 3 columns, those of 3 rows and 2 columns, and the 3 x 3
\* matrices of zeros and ones
InvertArguments ==
    { << m >> :
        m \in Matrices(0, 0, {})
                 \cup UNION { Matrices(numRows, numCols, (-MaxEntry)..MaxEntry) :
                                numRows \in 1..2, numCols \in 1..3 }
                 \cup Matrices(3, 2, 0..1)
                 \cup Matrices(3, 3, 0..1) }

InitInvert ==
    /\ InitComponent
    /\ argument \in InvertArguments
    /\ returned = <<>>

\* invert(matrix) is called: it builds the augmented matrix from copies of
\* the rows and leaves its argument as it is
CallInvert ==
    /\ returned = <<>>
    /\ returned' = << invert(argument[1]) >>
    /\ UNCHANGED << argument, mounted, webcamRunning, isCalibrating, highSensitivity,
                    calibrationStep, calibrationData, gazePoint, rendered, timers,
                    timeoutId, calibrationSamples, isProcessingSamples,
                    lastVideoFrameRef, smoothedVec >>

NextInvert == CallInvert

SpecInvert == InitInvert /\ [][NextInvert]_vars

\* the arguments of ridgeRegression: X empty, X of one row without columns,
\* X of 1 to 3 rows and 1 to 2 columns with entries below MaxEntry; y of 0
\* to 3 values; lambda 0 or 0.01
RidgeArguments ==
    { << X, y, lambda >> :
        X \in Matrices(0, 0, {}) \cup Matrices(1, 0, {})
                 \cup UNION { Matrices(numRows, numCols, 0..(MaxEntry - 1)) :
                                numRows \in 1..3, numCols \in 1..2 },
        y \in UNION { [1..len -> { RInt(0), RInt(1) }] : len \in 0..3 },
        lambda \in { RInt(0), Rat(LAMBDA_NUM, LAMBDA_DEN) } }

InitRidge ==
    /\ InitComponent
    /\ argument \in RidgeArguments
    /\ returned = <<>>

\* ridgeRegression(X, y, lambda) is called
CallRidgeRegression ==
    /\ returned = <<>>
    /\ returned' = << ridgeRegression(argument[1], argument[2], argument[3]) >>
    /\ UNCHANGED << argument, mounted, webcamRunning, isCalibrating, highSensitivity,
                    calibrationStep, calibrationData, gazePoint, rendered, timers,
                    timeoutId, calibrationSamples, isProcessingSamples,
                    lastVideoFrameRef, smoothedVec >>

NextRidge == CallRidgeRegression

SpecRidge == InitRidge /\ [][NextRidge]_vars

(***************************************************************************)
(* Claims                                                                  *)
(***************************************************************************)
\* the step sequence of one calibration run
ClaimSequence ==
    << "collecting_center", "awaiting_top_center", "collecting_top_center",
       "awaiting_top_right", "collecting_top_right", "awaiting_middle_right",
       "collecting_middle_right", "awaiting_bottom_right", "collecting_bottom_right",
       "awaiting_bottom_center", "collecting_bottom_center", "awaiting_bottom_left",
       "collecting_bottom_left", "awaiting_middle_left", "collecting_middle_left",
       "awaiting_top_left", "collecting_top_left", "done" >>

\* C1: from idle the step leaves only by start, to collecting_center; without
\* a reset or a mode exit every change of the step goes from one entry of the
\* clockwise sequence to the very next one, so no step is skipped or
\* repeated; and the step is done only with all 9 points stored.
C1_StepSequence ==
    /\ [](calibrationStep = "done" =>
              DOMAIN calibrationData.points = CollectingSteps)
    /\ [][calibrationStep' # calibrationStep =>
              \/ /\ calibrationStep = "idle"
                 /\ StartCalibration
                 /\ calibrationStep' = ClaimSequence[1]
              \/ ResetCalibration
              \/ FinishCalibration
              \/ \E i \in 1..(Len(ClaimSequence) - 1) :
                    /\ calibrationStep = ClaimSequence[i]
                    /\ calibrationStep' = ClaimSequence[i + 1]]_vars

\* a run has gone through the whole sequence: done, with the 9 points and
\* the coefficients stored
C1_Witness ==
    /\ calibrationStep = "done"
    /\ rendered.calibrationStep = "done"
    /\ DOMAIN calibrationData.points = CollectingSteps
    /\ calibrationData.regressionCoeffs # NoCoeffs

\* C2: whenever the controller is in a collecting or an awaiting step it
\* eventually reaches done (calibration mode stays active, valid frames
\* keep arriving, pending renders commit and pending timers fire).
C2_AlwaysReachesDone ==
    (calibrationStep \in CollectingSteps \cup AwaitingSteps)
        ~> (calibrationStep = "done")

\* a run begun after an earlier one has filled its buffer with the
\* processing flag still set: no frame, render or timer changes the step
C2_Stuck ==
    /\ isCalibrating /\ rendered = Current
    /\ calibrationStep = "collecting_center"
    /\ BagCardinality(calibrationSamples) = CALIBRATION_FRAMES
    /\ isProcessingSamples
    /\ calibrationData = EmptyData
    /\ timers = <<>>

\* C3: a reset at any non-idle step leaves step collecting_center, an
\* empty sample buffer and calibration data with no point and no
\* coefficients, in the state and in what the commit rendered.
C3_ResetClears ==
    [][ResetCalibrationAny =>
          /\ calibrationStep' = "collecting_center"
          /\ calibrationSamples' = EmptyBag
          /\ calibrationData' = EmptyData
          /\ rendered'.calibrationStep = "collecting_center"
          /\ rendered'.calibrationData = EmptyData]_vars

\* after a reset that followed a processed buffer: the flag is still set,
\* the points that buffer stored are gone
C3_Witness ==
    /\ calibrationStep = "collecting_center"
    /\ rendered.calibrationStep = "collecting_center"
    /\ calibrationSamples = EmptyBag
    /\ calibrationData = EmptyData
    /\ isProcessingSamples

\* C4: at most one timer is pending; a pending timer is the one scheduled on
\* entering the awaiting step the controller is in, with the component
\* mounted and calibration mode active (a reset, a mode exit and an unmount
\* cancel it); the step goes from awaiting_X to collecting_X only by that
\* timer; the processing flag is reset only by a pending timer firing.
C4_TimersNeverStale ==
    /\ [](/\ Len(timers) <= 1
          /\ timers # <<>> =>
                /\ mounted /\ isCalibrating /\ rendered.isCalibrating
                /\ calibrationStep \in AwaitingSteps
                /\ rendered.calibrationStep = calibrationStep
                /\ timers = << AwaitTarget(calibrationStep) >>)
    /\ [][/\ (calibrationStep \in AwaitingSteps
                 /\ calibrationStep' = AwaitTarget(calibrationStep))
             => (timers = << calibrationStep' >> /\ timers' = <<>>)
          /\ (isProcessingSamples /\ ~isProcessingSamples')
             => (timers # <<>> /\ timers' = <<>>
                    /\ calibrationStep' = timers[1])]_vars

\* the component unmounted in an awaiting step: the timer is cancelled
C4_Witness ==
    /\ ~mounted /\ isCalibrating
    /\ calibrationStep \in AwaitingSteps
    /\ rendered.calibrationStep = calibrationStep
    /\ timers = <<>>

\* C5: processing a buffer of the final point collecting_top_left leaves
\* step done, the stored points kept and the final point stored; with fewer
\* than 3 training rows the coefficients stay absent, and otherwise they
\* are absent (a fit returned null) or two vectors of length 3.
C5_FinalPointReachesDone ==
    [][(/\ CallProcessCollectedSamples
        /\ rendered.calibrationStep = "collecting_top_left"
        /\ 2 * BagCardinality(calibrationSamples) >= CALIBRATION_FRAMES)
       => /\ calibrationStep' = "done"
          /\ DOMAIN calibrationData'.points =
                DOMAIN rendered.calibrationData.points \cup {"collecting_top_left"}
          /\ calibrationData'.points["collecting_top_left"]
                = AverageGaze(calibrationSamples)
          /\ \A k \in DOMAIN rendered.calibrationData.points \ {"collecting_top_left"} :
                calibrationData'.points[k] = rendered.calibrationData.points[k]
          /\ Cardinality(DOMAIN calibrationData'.points) < MIN_TRAINING_ROWS
                => calibrationData'.regressionCoeffs = NoCoeffs
          /\ Cardinality(DOMAIN calibrationData'.points) >= MIN_TRAINING_ROWS
                => \/ calibrationData'.regressionCoeffs = NoCoeffs
                   \/ /\ Len(calibrationData'.regressionCoeffs.u) = 3
                      /\ Len(calibrationData'.regressionCoeffs.v) = 3]_vars

\* the final point processed with fewer than 3 training rows: done, the
\* point kept, no coefficients
C5_Witness ==
    /\ calibrationStep = "done"
    /\ rendered.calibrationStep = "collecting_top_left"
    /\ isProcessingSamples
    /\ "collecting_top_left" \in DOMAIN calibrationData.points
    /\ Cardinality(DOMAIN calibrationData.points) < MIN_TRAINING_ROWS
    /\ calibrationData.regressionCoeffs = NoCoeffs

\* C6: the exit of calibration mode at any step leaves step idle and the
\* calibration data as it was; while calibration mode is off the data does
\* not change; and the step leaves idle only by start in calibration mode.
C6_ExitForcesIdle ==
    [][/\ ExitCalibrationAny =>
             /\ calibrationStep' = "idle"
             /\ calibrationData' = calibrationData
             /\ ~isCalibrating'
       /\ (~isCalibrating /\ ~isCalibrating') =>
             /\ calibrationData' = calibrationData
             /\ calibrationStep' = "idle"
       /\ (calibrationStep = "idle" /\ calibrationStep' # "idle") =>
             /\ isCalibrating /\ isCalibrating'
             /\ rendered.calibrationStep = "idle"
             /\ calibrationStep' = "collecting_center"]_vars

\* calibration mode was left in the middle of a run: idle, with the points
\* stored so far
C6_Witness ==
    /\ ~isCalibrating
    /\ calibrationStep = "idle"
    /\ rendered.calibrationStep = "idle"
    /\ Cardinality(DOMAIN calibrationData.points) \in 1..8

\* C7: with fewer than CALIBRATION_FRAMES/2 samples in the buffer nothing
\* changes the step, the calibration data or the processing flag, so a
\* point's averaged vector is stored only from at least 45 samples.
C7_TooFewSamplesIgnored ==
    [][2 * BagCardinality(calibrationSamples) < CALIBRATION_FRAMES =>
          UNCHANGED << calibrationStep, calibrationData, isProcessingSamples >>]_vars

\* processCollectedSamples is callable on a buffer of 1 to 44 samples
C7_Witness ==
    /\ calibrationStep \in CollectingSteps
    /\ rendered = Current
    /\ BagCardinality(calibrationSamples) \in 1..44
    /\ ~isProcessingSamples
    /\ ENABLED CallProcessCollectedSamples

\* C8: the buffer never holds more than CALIBRATION_FRAMES samples, the
\* progress fraction is within [0,1] for the step in the state and the
\* step rendered, and it is 0 in every step that is not a collecting step.
C8_BufferBounded ==
    /\ BagCardinality(calibrationSamples) <= CALIBRATION_FRAMES
    /\ \A step \in {calibrationStep, rendered.calibrationStep} :
          /\ RLeq(RInt(0), progress(step, calibrationSamples))
          /\ RLeq(progress(step, calibrationSamples), RInt(1))
          /\ step \notin CollectingSteps =>
                progress(step, calibrationSamples) = RInt(0)

\* the buffer is full and was processed while the callbacks still deliver
\* samples of the collecting step they captured
C8_Witness ==
    /\ BagCardinality(calibrationSamples) = CALIBRATION_FRAMES
    /\ rendered.isCalibrating
    /\ rendered.calibrationStep \in CollectingSteps
    /\ calibrationStep \in AwaitingSteps
    /\ progress(rendered.calibrationStep, calibrationSamples) = RInt(1)
    /\ lastVideoFrameRef = MaxFrameId

\* C9: a processed frame with no face, or with 473 or fewer landmarks,
\* leaves the four smoothing scalars zero.
C9_NoGeometryResetsSmoothing ==
    [][\A pf \in FrameIds : \A f \in {NoFaceFrame, ShortFrame} :
          (pf > lastVideoFrameRef /\ predictCallback(pf, f))
             => smoothedVec' = ZeroSmoothed]_vars

\* the last processed frame gave no gaze and the scalars are not zero
C9_StaleSmoothing ==
    /\ rendered.webcamRunning
    /\ lastVideoFrameRef >= 0
    /\ gazePoint = NoGaze
    /\ smoothedVec # ZeroSmoothed

C11_StaleFramesIgnored ==
    [][/\ \A pf \in FrameIds : \A f \in Frames :
             (pf <= lastVideoFrameRef /\ predictCallback(pf, f))
                => UNCHANGED vars
       /\ lastVideoFrameRef' # lastVideoFrameRef =>
             \/ lastVideoFrameRef' > lastVideoFrameRef
             \/ (lastVideoFrameRef' = -1 /\ ~rendered'.webcamRunning)]_vars

\* frames 0 to MaxFrameId were processed and gave a gaze point: a callback
\* for the identifier last processed, now without a face, would leave the
\* gaze point and the identifier as they are
C11_Witness ==
    /\ mounted /\ rendered.webcamRunning
    /\ lastVideoFrameRef = MaxFrameId
    /\ ~gazePoint.none
    /\ FrameOutcome(lastVideoFrameRef, NoFaceFrame).drawn.gaze = gazePoint
    /\ FrameOutcome(lastVideoFrameRef, NoFaceFrame).lastVideoFrameRef = MaxFrameId

\* C12 as the code has it: the sample a processed frame adds to the buffer
\* holds that frame's raw per-eye vectors (the pose-corrected vectors
\* before the smoothing update), whatever the smoothing scalars are.
C12_SamplesAreRaw ==
    [][\A pf \in FrameIds : \A f \in Frames :
          (/\ pf > lastVideoFrameRef
           /\ predictCallback(pf, f)
           /\ calibrationSamples' # calibrationSamples)
          => calibrationSamples' =
                calibrationSamples (+) SetToBag({[vec_R |-> f.rawVec_R,
                                                  vec_L |-> f.rawVec_L]})]_vars

\* C12 as stated: the sample a processed frame adds to the buffer holds
\* that frame's smoothed vectors, the values of the four smoothing scalars
\* after the frame's update (the scalars are held in units of 1/FP).
C12_SamplesAreSmoothed ==
    [][\A pf \in FrameIds : \A f \in Frames :
          (/\ pf > lastVideoFrameRef
           /\ predictCallback(pf, f)
           /\ calibrationSamples' # calibrationSamples)
          => \E s \in BagToSet(calibrationSamples') :
                /\ calibrationSamples' = calibrationSamples (+) SetToBag({s})
                /\ s.vec_R.x * FP = smoothedVec'.x_R
                /\ s.vec_R.y * FP = smoothedVec'.y_R
                /\ s.vec_L.x * FP = smoothedVec'.x_L
                /\ s.vec_L.y * FP = smoothedVec'.y_L]_vars

\* samples were recorded while the smoothing scalars, updated by the same
\* frames, hold values other than the recorded vectors
C12_Witness ==
    /\ rendered.isCalibrating
    /\ rendered.calibrationStep \in CollectingSteps
    /\ BagToSet(calibrationSamples) = {SampleOf(GazingFrame)}
    /\ smoothedVec # ZeroSmoothed
    /\ smoothedVec.x_R # FP * GazingFrame.rawVec_R.x
    /\ smoothedVec.y_L # FP * GazingFrame.rawVec_L.y

\* C13: processing the final point stores regression coefficients if and
\* only if the training data has at least 3 rows and both ridge fits (of
\* the u targets and of the v targets on the rows [1, x, y]) return a
\* solution, and the coefficients stored are those two solutions; with
\* fewer than 3 points they stay absent; with all 9 points both fits
\* succeed and the coefficients are two vectors of length 3.
C13_CoefficientsIffTrained ==
    [][(/\ CallProcessCollectedSamples
        /\ rendered.calibrationStep = "collecting_top_left"
        /\ 2 * BagCardinality(calibrationSamples) >= CALIBRATION_FRAMES)
       => \E rows \in { trainingData(calibrationData'.points) } :
          \E fit_u \in { ridgeRegression([i \in 1..Len(rows) |-> rows[i].features],
                              [i \in 1..Len(rows) |-> Rat(rows[i].target.u2, 2)],
                              Rat(LAMBDA_NUM, LAMBDA_DEN)) } :
          \E fit_v \in { ridgeRegression([i \in 1..Len(rows) |-> rows[i].features],
                              [i \in 1..Len(rows) |-> Rat(rows[i].target.v2, 2)],
                              Rat(LAMBDA_NUM, LAMBDA_DEN)) } :
             /\ Len(rows) = Cardinality(DOMAIN calibrationData'.points)
             /\ calibrationData'.regressionCoeffs # NoCoeffs
                   <=> (Len(rows) >= 3 /\ fit_u # NULL /\ fit_v # NULL)
             /\ calibrationData'.regressionCoeffs # NoCoeffs
                   => calibrationData'.regressionCoeffs = [u |-> fit_u, v |-> fit_v]
             /\ Len(rows) = 9
                   => /\ fit_u # NULL /\ fit_v # NULL
                      /\ Len(calibrationData'.regressionCoeffs.u) = 3
                      /\ Len(calibrationData'.regressionCoeffs.v) = 3]_vars

\* the final point processed with exactly 3 training rows, and with all 9:
\* the coefficients are stored
C13_Witness ==
    /\ calibrationStep = "done"
    /\ rendered.calibrationStep = "collecting_top_left"
    /\ Cardinality(DOMAIN calibrationData.points) \in {MIN_TRAINING_ROWS, 9}
    /\ calibrationData.regressionCoeffs # NoCoeffs
    /\ Len(calibrationData.regressionCoeffs.u) = 3
    /\ Len(calibrationData.regressionCoeffs.v) = 3

\* C14: with regression coefficients present the predictor returns a point
\* with 0 <= u <= 1 and 0 <= v <= 1 for every gaze vector and every
\* coefficients, a component of 1000000 included; each coordinate is the
\* dot product of [1, x, y] with its coefficients, replaced by 0 when it
\* is below 0 and by 1 when it is above 1.
C14_RegressionOutputClamped ==
    (returned # <<>> /\ argument.cal.regressionCoeffs # NoCoeffs) =>
        \E features \in { << RInt(1),
                             Rat(argument.sm.x_R + argument.sm.x_L, 2 * FP),
                             Rat(argument.sm.y_R + argument.sm.y_L, 2 * FP) >> } :
        \E raw_u \in { dot(features, argument.cal.regressionCoeffs.u) } :
        \E raw_v \in { dot(features, argument.cal.regressionCoeffs.v) } :
            /\ ~returned[1].none
            /\ RLeq(RInt(0), returned[1].u) /\ RLeq(returned[1].u, RInt(1))
            /\ RLeq(RInt(0), returned[1].v) /\ RLeq(returned[1].v, RInt(1))
            /\ returned[1].u = IF RLess(raw_u, RInt(0)) THEN RInt(0)
                               ELSE IF RLess(RInt(1), raw_u) THEN RInt(1)
                               ELSE raw_u
            /\ returned[1].v = IF RLess(raw_v, RInt(0)) THEN RInt(0)
                               ELSE IF RLess(RInt(1), raw_v) THEN RInt(1)
                               ELSE raw_v

\* the predictor ran on the vector (ExtremeVec, ExtremeVec) with
\* coefficients whose dot products are far below 0 for u and far above 1
\* for v: it returned u = 0 and v = 1
C14_Witness ==
    /\ returned # <<>>
    /\ argument.cal.regressionCoeffs # NoCoeffs
    /\ argument.sm = SmoothedAt(ExtremeVec, ExtremeVec)
    /\ returned[1].u = RInt(0)
    /\ returned[1].v = RInt(1)

\* C15: every gaze point the predictor returns has u and v in [0,1], with
\* a trained regression model and with the geometric fallback projection.
C15_OutputInUnitSquare ==
    returned # <<>> =>
        /\ RLeq(RInt(0), returned[1].u) /\ RLeq(returned[1].u, RInt(1))
        /\ RLeq(RInt(0), returned[1].v) /\ RLeq(returned[1].v, RInt(1))

\* the fallback projection ran at low sensitivity on the smoothed vector
\* (MaxVec, 0), eye centres 120 pixels apart in a 640 pixel wide canvas:
\* u is above 1
C15_OutsideUnitSquare ==
    /\ returned # <<>>
    /\ argument.cal = NullData
    /\ ~argument.highSensitivity
    /\ argument.sm = SmoothedAt(MaxVec, 0)
    /\ RLess(RInt(1), returned[1].u)

\* n times the distance of value `c` of sample `s` from the mean of that
\* value over the buffer
ClaimDeviation(bag, s, c) ==
    Abs(BagCardinality(bag) * Component(s, c) - SumOver(BagToSet(bag), bag, c, 1))

\* n times the standard deviation of value `c` over the buffer, rounded down
ClaimSpread(bag, c) ==
    ISqrt(BagCardinality(bag) * SumOver(BagToSet(bag), bag, c, 2)
            - SumOver(BagToSet(bag), bag, c, 1) * SumOver(BagToSet(bag), bag, c, 1))

\* the average gaze vector of the samples of a non-empty buffer
ClaimMean(bag) ==
    [x |-> Rat(SumOver(BagToSet(bag), bag, "vec_R_x", 1)
                 + SumOver(BagToSet(bag), bag, "vec_L_x", 1), 2 * BagCardinality(bag)),
     y |-> Rat(SumOver(BagToSet(bag), bag, "vec_R_y", 1)
                 + SumOver(BagToSet(bag), bag, "vec_L_y", 1), 2 * BagCardinality(bag))]

\* C16: when a buffer is processed, every sample of which one of the four
\* values lies more than 2 standard deviations from the mean of that value
\* is excluded, and every sample whose four values lie within 2 standard
\* deviations is kept; when more than 10 samples are kept the point stored
\* is the average of the kept samples.  On 89 samples at (0,0) and one at
\* (OutlierValue, OutlierValue) the outlier is excluded and the point
\* stored is (0,0).
C16_OutliersExcluded ==
    [][(/\ CallProcessCollectedSamples
        /\ 2 * BagCardinality(calibrationSamples) >= CALIBRATION_FRAMES)
       => \E far \in { { s \in BagToSet(calibrationSamples) :
                           \E c \in Components :
                              ClaimDeviation(calibrationSamples, s, c)
                                 > 2 * ClaimSpread(calibrationSamples, c) + 2 } } :
          \E near \in { { s \in BagToSet(calibrationSamples) :
                            \A c \in Components :
                               ClaimDeviation(calibrationSamples, s, c)
                                  <= 2 * ClaimSpread(calibrationSamples, c) } } :
          \E kept \in { [s \in near |-> calibrationSamples[s]] } :
             /\ far \cup near = BagToSet(calibrationSamples)
             /\ BagCardinality(kept) > 10
                   => calibrationData'.points[rendered.calibrationStep] = ClaimMean(kept)
             /\ calibrationSamples = MixedBuffer(0, 0, 1, CALIBRATION_FRAMES - 1)
                   => /\ far = { AllComponents(OutlierValue) }
                      /\ calibrationData'.points[rendered.calibrationStep]
                            = [x |-> RInt(0), y |-> RInt(0)]]_vars

\* 89 samples at (0,0) and one at (OutlierValue, OutlierValue) were
\* processed: the point stored is (0,0)
C16_Witness ==
    /\ calibrationSamples = MixedBuffer(0, 0, 1, CALIBRATION_FRAMES - 1)
    /\ isProcessingSamples
    /\ calibrationStep = "awaiting_top_center"
    /\ calibrationData.points["collecting_center"] = [x |-> RInt(0), y |-> RInt(0)]

\* C17: the point stored is the average of the samples that pass the
\* outlier filter when more than 10 pass, and the average of the whole
\* buffer otherwise; the set averaged is never empty.
C17_FallbackToFullBuffer ==
    [][(/\ CallProcessCollectedSamples
        /\ 2 * BagCardinality(calibrationSamples) >= CALIBRATION_FRAMES)
       => \E passed \in { filteredSamples(calibrationSamples) } :
          \E used \in { IF BagCardinality(passed) > 10 THEN passed
                         ELSE calibrationSamples } :
             /\ BagCardinality(used) > 0
             /\ calibrationData'.points[rendered.calibrationStep] = ClaimMean(used)]_vars

\* a buffer of 90 samples of which exactly 10 pass the filter was
\* processed: the point stored is the average of all 90, which is not the
\* average of the 10
C17_Witness ==
    /\ isProcessingSamples
    /\ calibrationStep = "awaiting_top_center"
    /\ BagCardinality(calibrationSamples) = CALIBRATION_FRAMES
    /\ BagCardinality(filteredSamples(calibrationSamples)) = 10
    /\ calibrationData.points["collecting_center"] = ClaimMean(calibrationSamples)
    /\ calibrationData.points["collecting_center"]
          # ClaimMean(filteredSamples(calibrationSamples))

\* the matrix M without its first row and its column j
ClaimMinor(M, j) ==
    [r \in 1..(Len(M) - 1) |->
        [c \in 1..(Len(M) - 1) |-> M[r + 1][IF c < j THEN c ELSE c + 1]]]

\* the determinant of a square matrix, expanded along its first row
RECURSIVE ClaimDet(_)
ClaimDet(M) ==
    IF Len(M) = 1 THEN M[1][1]
    ELSE RSum([j \in 1..Len(M) |->
                  RMul(IF j % 2 = 1 THEN M[1][j] ELSE RNeg(M[1][j]),
                       ClaimDet(ClaimMinor(M, j)))])

\* C18: invert returns null for the empty matrix, for a matrix that is not
\* square and for every singular square matrix, the zero matrix included;
\* for every other matrix it returns R with R * M the identity; and the
\* call leaves its argument as it was.
C18_InvertNullOrInverse ==
    /\ [](returned # <<>> =>
            \E M \in { argument[1] } : \E R \in { returned[1] } :
               IF Len(M) = 0 THEN R = NULL
               ELSE IF Len(M[1]) # Len(M) THEN R = NULL
               ELSE IF ClaimDet(M) = RInt(0) THEN R = NULL
               ELSE /\ R # NULL
                    /\ Len(R) = Len(M)
                    /\ multiply(R, M) = identity(Len(M)))
    /\ [][returned' # returned => argument' = argument]_vars

\* invert was called on the 3 x 3 zero matrix and returned null
C18_Witness ==
    /\ returned = << NULL >>
    /\ argument = << [r \in 1..3 |-> [c \in 1..3 |-> RInt(0)]] >>

\* C19: ridgeRegression returns null or a coefficient vector and never
\* lets an error out: null for an empty X, for X without columns and for y
\* of a length other than the number of rows (the errors of transpose,
\* multiply and multiplyVector), null when X^T X + lambda I is singular,
\* and otherwise the vector w, one coefficient per column, with
\* (X^T X + lambda I) w = X^T y.
C19_RidgeNeverThrows ==
    returned # <<>> =>
        \E X \in { argument[1] } : \E y \in { argument[2] } :
        \E w \in { returned[1] } :
           IF Len(X) = 0 THEN w = NULL
           ELSE IF Len(X[1]) = 0 THEN w = NULL
           ELSE IF Len(y) # Len(X) THEN w = NULL
           ELSE \E A \in { add(multiply(transpose(X), X),
                                scalarMultiply(identity(Len(X[1])), argument[3])) } :
                   IF ClaimDet(A) = RInt(0) THEN w = NULL
                   ELSE /\ Len(w) = Len(X[1])
                        /\ multiplyVector(A, w) = multiplyVector(transpose(X), y)

\* ridgeRegression was called on 2 rows with a y of 3 values and returned
\* null
C19_Witness ==
    /\ returned = << NULL >>
    /\ Len(argument[1]) = 2
    /\ Len(argument[1][1]) = 2
    /\ Len(argument[2]) = 3
    /\ argument[3] = Rat(LAMBDA_NUM, LAMBDA_DEN)

\* C20: a reset at any non-idle step leaves the controller in the state a
\* start from idle leaves on a freshly mounted component: step
\* collecting_center, an empty buffer, calibration data without points
\* and coefficients, and the processing flag not set.
C20_ResetEqualsFreshStart ==
    [][ResetCalibrationAny =>
          /\ calibrationStep' = "collecting_center"
          /\ calibrationSamples' = EmptyBag
          /\ calibrationData' = EmptyData
          /\ isProcessingSamples' = FALSE]_vars

\* the run that follows a reset is collecting its first point with the
\* processing flag set, which no first run does
C20_ResetKeepsFlag ==
    /\ mounted /\ rendered.isCalibrating
    /\ calibrationStep = "collecting_center"
    /\ rendered.calibrationStep = "collecting_center"
    /\ calibrationData = EmptyData
    /\ BagCardinality(calibrationSamples) \in 1..(CALIBRATION_FRAMES - 1)
    /\ isProcessingSamples

\* C21: the buffer of a collection window is processed at most once.  A
\* point is written, and the step moves from a collecting step to its
\* successor, only in the step that brings the buffer from 89 to 90
\* samples and sets the processing flag; a buffer of 90 samples accepts no
\* further sample; and the flag is cleared only together with the buffer,
\* when a timer starts the next window.
C21_ProcessedAtMostOnce ==
    [][/\ (\/ (calibrationData'.points # calibrationData.points
                  /\ calibrationData'.points # EmptyPoints)
            \/ (calibrationStep \in CollectingSteps
                  /\ calibrationStep' \in AwaitingSteps \cup {"done"}))
          => /\ BagCardinality(calibrationSamples) = CALIBRATION_FRAMES - 1
             /\ BagCardinality(calibrationSamples') = CALIBRATION_FRAMES
             /\ ~isProcessingSamples /\ isProcessingSamples'
             /\ rendered.calibrationStep = calibrationStep
             /\ DOMAIN calibrationData'.points
                   = DOMAIN calibrationData.points \cup {calibrationStep}
             /\ calibrationStep' = IF calibrationStep = "collecting_top_left"
                                   THEN "done" ELSE transitionMap(calibrationStep)
       /\ BagCardinality(calibrationSamples) = CALIBRATION_FRAMES
          => (calibrationSamples' = calibrationSamples
                 \/ calibrationSamples' = EmptyBag)
       /\ (isProcessingSamples /\ ~isProcessingSamples')
          => /\ calibrationSamples' = EmptyBag
             /\ calibrationStep \in AwaitingSteps
             /\ calibrationStep' = AwaitTarget(calibrationStep)]_vars

\* the last window was processed and frames kept arriving before the
\* render: the buffer still holds its 90 samples, the 9 points are stored
\* and the step is done
C21_Witness ==
    /\ calibrationStep = "done"
    /\ rendered.calibrationStep = "collecting_top_left"
    /\ rendered.isCalibrating
    /\ BagCardinality(calibrationSamples) = CALIBRATION_FRAMES
    /\ isProcessingSamples
    /\ DOMAIN calibrationData.points = CollectingSteps
    /\ FrameOutcome(MaxFrameId + 1, GazingFrame).drawn.controller.calibrationData
          = calibrationData

\* C22: whenever a collecting step is entered, in the state (by start, by
\* reset or by the timer of the awaiting step) or in what a commit renders,
\* the sample buffer is empty; and a buffer that is processed holds only
\* samples accepted since then, all in that step.
C22_BufferEmptyOnEntry ==
    [][/\ (calibrationStep' \in CollectingSteps
              /\ (calibrationStep' # calibrationStep \/ ResetCalibrationAny))
          => calibrationSamples' = EmptyBag
       /\ (rendered'.calibrationStep \in CollectingSteps
              /\ rendered'.calibrationStep # rendered.calibrationStep)
          => calibrationSamples' = EmptyBag
       /\ BagCardinality(calibrationSamples') > BagCardinality(calibrationSamples)
          => /\ rendered.calibrationStep \in CollectingSteps
             /\ UNCHANGED rendered
             /\ BagCardinality(calibrationSamples')
                   = BagCardinality(calibrationSamples) + 1]_vars

\* a timer has just entered a collecting step after the window of the
\* point before it was processed: the buffer is empty and the flag cleared
C22_Witness ==
    /\ calibrationStep \in CollectingSteps \ {"collecting_center"}
    /\ rendered.calibrationStep \in AwaitingSteps
    /\ AwaitTarget(rendered.calibrationStep) = calibrationStep
    /\ calibrationData.points # EmptyPoints
    /\ calibrationSamples = EmptyBag
    /\ ~isProcessingSamples
    /\ timers = <<>>

\* the calibration point of a collecting or an awaiting step
ClaimPoint(step) ==
    IF step \in AwaitingSteps THEN AwaitTarget(step) ELSE step

\* the keys of the points strictly before a point in the calibration order
ClaimBefore(point) ==
    { StepOrder[i] : i \in { j \in 1..Len(StepOrder) :
                                \E n \in (j + 1)..Len(StepOrder) :
                                    StepOrder[n] = point } }

\* C23: in a collecting or an awaiting step of point P the keys of the stored
\* points are exactly the collecting keys of the points strictly before P in
\* the calibration order, and in done they are all 9 keys; the same holds of
\* the step and the data a commit has rendered.
C23_KeysTrackProgress ==
    /\ calibrationStep \in CollectingSteps \cup AwaitingSteps
          => DOMAIN calibrationData.points = ClaimBefore(ClaimPoint(calibrationStep))
    /\ calibrationStep = "done"
          => DOMAIN calibrationData.points = CollectingSteps
    /\ rendered.calibrationStep \in CollectingSteps \cup AwaitingSteps
          => DOMAIN rendered.calibrationData.points
                = ClaimBefore(ClaimPoint(rendered.calibrationStep))
    /\ rendered.calibrationStep = "done"
          => DOMAIN rendered.calibrationData.points = CollectingSteps

\* the point before the last has been processed: 8 keys, all but top_left
C23_Witness ==
    /\ calibrationStep = "awaiting_top_left"
    /\ rendered.calibrationStep = "collecting_middle_left"
    /\ DOMAIN calibrationData.points = CollectingSteps \ {"collecting_top_left"}
    /\ DOMAIN rendered.calibrationData.points
          = CollectingSteps \ {"collecting_top_left", "collecting_middle_left"}
    /\ isProcessingSamples

\* C24: in every collecting and awaiting step, of the state and of what is
\* rendered, the regression coefficients are absent, so a frame processed
\* then is given the fallback projection; coefficients are written only
\* where there were none, by the step that processes the window of
\* collecting_top_left and moves to done; and coefficients once written
\* change only by being removed when a run starts at collecting_center.
C24_CoefficientsOnlyAfterRun ==
    /\ [](calibrationStep \in CollectingSteps \cup AwaitingSteps
              => calibrationData.regressionCoeffs = NoCoeffs)
    /\ [](rendered.calibrationStep \in CollectingSteps \cup AwaitingSteps
              => /\ rendered.calibrationData.regressionCoeffs = NoCoeffs
                 /\ FrameOutcome(MaxFrameId + 1, GazingFrame).drawn.gaze
                       = GazePredictor(GazingFrame,
                                       SmoothAll(GazingFrame, smoothedVec),
                                       NullData, rendered.highSensitivity))
    /\ [][calibrationData'.regressionCoeffs # calibrationData.regressionCoeffs
             => \/ /\ calibrationData.regressionCoeffs = NoCoeffs
                   /\ calibrationStep = "collecting_top_left"
                   /\ calibrationStep' = "done"
                   /\ ~isProcessingSamples /\ isProcessingSamples'
                \/ /\ calibrationData'.regressionCoeffs = NoCoeffs
                   /\ calibrationStep' = "collecting_center"
                   /\ calibrationStep \in {"done", "idle"}]_vars

\* the last window has just been processed and the coefficients written,
\* while what is rendered is still collecting_top_left without coefficients
C24_Witness ==
    /\ calibrationStep = "done"
    /\ calibrationData.regressionCoeffs # NoCoeffs
    /\ rendered.calibrationStep = "collecting_top_left"
    /\ rendered.calibrationData.regressionCoeffs = NoCoeffs
    /\ ~gazePoint.none

\* the controller as a frame callback finds it
ClaimController ==
    [calibrationSamples |-> calibrationSamples,
     isProcessingSamples |-> isProcessingSamples,
     calibrationData |-> calibrationData,
     calibrationStep |-> calibrationStep]

\* C25: a sample is appended to the buffer only by a step taken while
\* calibration mode is active and the step, current and rendered, is a
\* collecting step; and in every state where calibration mode is off or the
\* step is idle, awaiting or done, processing any frame leaves the buffer,
\* the processing flag, the step and the calibration data unchanged.
C25_SamplesOnlyWhileCollecting ==
    /\ []((~isCalibrating \/ calibrationStep \notin CollectingSteps)
              => \A pf \in FrameIds, f \in Frames :
                    FrameOutcome(pf, f).drawn.controller = ClaimController)
    /\ [][BagCardinality(calibrationSamples') > BagCardinality(calibrationSamples)
             => /\ isCalibrating /\ rendered.isCalibrating
                /\ calibrationStep \in CollectingSteps
                /\ rendered.calibrationStep = calibrationStep
                /\ FrameArrives]_vars

\* calibration mode was left in the middle of a collection window: valid
\* frames are still drawn, and the next one leaves the half-filled buffer
\* as it is
C25_Witness ==
    /\ mounted /\ rendered.webcamRunning
    /\ ~isCalibrating /\ ~rendered.isCalibrating
    /\ rendered.calibrationStep \in CollectingSteps
    /\ BagCardinality(calibrationSamples) \in 1..(CALIBRATION_FRAMES - 1)
    /\ ~gazePoint.none
    /\ FrameOutcome(MaxFrameId + 1, GazingFrame).drawn.controller = ClaimController
    /\ ~FrameOutcome(MaxFrameId + 1, GazingFrame).drawn.gaze.none

\* C26: calibration mode is active only with the webcam running; it is
\* entered only by "CALIBRATE GAZE" with the webcam running, in the state
\* and as rendered, and entering leaves the step idle; and disabling the
\* webcam leaves the webcam off, calibration mode off, the gaze point none
\* and the step idle.
C26_CalibratingNeedsWebcam ==
    /\ [](isCalibrating => webcamRunning /\ rendered.webcamRunning)
    /\ [](~isCalibrating => calibrationStep = "idle")
    /\ [][(~isCalibrating /\ isCalibrating')
             => /\ CalibrateGaze
                /\ webcamRunning /\ rendered.webcamRunning
                /\ calibrationStep' = "idle"]_vars
    /\ [][DisableCam
             => /\ ~webcamRunning' /\ ~isCalibrating'
                /\ gazePoint' = NoGaze
                /\ calibrationStep' = "idle"]_vars

\* the webcam has been disabled after a calibration run and frames drawn:
\* webcam and calibration mode off, gaze none, step idle
C26_Witness ==
    /\ ~webcamRunning /\ ~rendered.webcamRunning
    /\ ~isCalibrating
    /\ gazePoint = NoGaze
    /\ calibrationStep = "idle"
    /\ lastVideoFrameRef = -1
    /\ calibrationData # NullData
    /\ smoothedVec # ZeroSmoothed

\* C27: two runs of the gaze follower calculation given the same
\* regression coefficients and smoothed vectors with the same average
\* return the same point, whatever the sensitivity flag, the eye centers,
\* the inter-ocular distance, the canvas size and the split of the average
\* between the two eyes in each run; without coefficients, two runs on the
\* same frame and smoothed vectors whose flags differ return different
\* points unless the average vector is zero.
C27_RegressionIgnoresGeometry ==
    returned # <<>> =>
        /\ argument.left.cal.regressionCoeffs # NoCoeffs
              => returned[1] = returned[2]
        /\ (/\ argument.left.cal.regressionCoeffs = NoCoeffs
            /\ argument.right.frame = argument.left.frame
            /\ argument.right.sm = argument.left.sm
            /\ argument.right.highSensitivity # argument.left.highSensitivity
            /\ argument.left.sm # SmoothedAt(0, 0))
              => returned[1] # returned[2]

\* two runs with coefficients that weigh the gaze vector, on frames with
\* different canvas sizes, with different flags and different splits of
\* the same average: both return the same point, inside the unit square
C27_Witness ==
    /\ returned # <<>>
    /\ argument.left.cal.regressionCoeffs # NoCoeffs
    /\ argument.left.cal.regressionCoeffs.u[2] # RInt(0)
    /\ argument.right.frame.width # argument.left.frame.width
    /\ argument.right.highSensitivity # argument.left.highSensitivity
    /\ argument.right.sm # argument.left.sm
    /\ returned[1] = returned[2]
    /\ RLess(RInt(0), returned[1].u) /\ RLess(returned[1].u, RInt(1))

=============================================================================
